---------------------------- MODULE Spec2Model ----------------------------
(***************************************************************************)
(* A model of the poker simulation core: the deck (src/src/deck.py), the   *)
(* hand evaluator and decision policy (src/src/player.py) and the hand     *)
(* orchestration with its betting rounds (src/src/game.py).                *)
(*                                                                         *)
(* Three specifications share the module: DeckSpec drives one Deck,        *)
(* EvalSpec one Player's evaluate_hand, Spec and FairSpec a PokerGame.     *)
(*                                                                         *)
(* Chip amounts are Python floats in the source.  They are modelled as     *)
(* exact rationals <<numerator, denominator>> in lowest terms, so float    *)
(* rounding is not modelled.                                               *)
(***************************************************************************)
EXTENDS Integers, Sequences, FiniteSets, TLC

VARIABLES
    \* ---- a stand-alone Deck object driven by arbitrary calls (DeckSpec)
    dk,              \* [cards, discarded] of the stand-alone deck
    dkOp,            \* the last call made on it: [name, rank, suit]
    dkRet,           \* what that call returned (a card, or None)
    \* ---- a stand-alone Player asked to evaluate its hand (EvalSpec)
    evHole,          \* self.hole_cards
    evCommunity,     \* the community_cards handed to evaluate_hand
    evStrength,      \* what the last evaluate_hand call returned (or None)
    \* ---- PokerGame
    num_players, initial_stack, small_blind, big_blind, four_card_flop,
    event_callback,  \* TRUE when a callback is registered
    deck,            \* self.deck: [cards, discarded]
    players,         \* self.players: 0..num_players-1 -> player record
    community_cards, pot, current_bet, button_pos,
    \* ---- control state of play_hand / _betting_round
    pc,              \* where play_hand stands
    street,          \* 0 pre-flop, 1 flop, 2 turn, 3 river
    start_pos, current_pos,  \* locals of _betting_round
    round_result,    \* what the last _betting_round returned
    results,         \* what _resolve_winners returned: <<[player, winnings]>>
    \* ---- observation
    events,          \* the events delivered in this hand (first MaxEvents)
    last_event,      \* the most recent event delivered in this hand
    hands_played,    \* completed play_hand calls
    hand_chips,      \* sum of the stacks at the end of reset_hand
    hand_stacks,     \* each seat's stack at the end of reset_hand
    acted,           \* seats that acted in this round since its last raise
    last_raiser      \* the seat of the last raise of this round, or -1

vars == <<dk, dkOp, dkRet, evHole, evCommunity, evStrength,
          num_players, initial_stack, small_blind, big_blind, four_card_flop,
          event_callback, deck, players, community_cards, pot, current_bet,
          button_pos, pc, street, start_pos, current_pos, round_result,
          results, events, last_event, hands_played, hand_chips, hand_stacks,
          acted, last_raiser>>

deckVars == <<dk, dkOp, dkRet>>

evalVars == <<evHole, evCommunity, evStrength>>

gameVars == <<num_players, initial_stack, small_blind, big_blind,
              four_card_flop, event_callback, deck, players, community_cards,
              pot, current_bet, button_pos, pc, street, start_pos,
              current_pos, round_result, results, events, last_event,
              hands_played, hand_chips, hand_stacks, acted, last_raiser>>

\* Python's None where a card is expected
NoCard == [rank |-> -1, suit |-> -1]

-----------------------------------------------------------------------------
(* Bounds of the model *)

NumDeckRanks == 2     \* ranks of the stand-alone deck of DeckSpec
MaxPlayers == 3       \* tables of 2..MaxPlayers players
MaxHands == 2         \* play_hand calls per session
MaxEvents == 24       \* events kept in the per-hand log

-----------------------------------------------------------------------------
(* Sequence helpers *)

\* a function with domain 1..n as the tuple of its values
Tuple(f) == <<>> \o f

Last(s) == s[Len(s)]

Front(s) == SubSeq(s, 1, Len(s) - 1)

Take(s, k) == SubSeq(s, 1, IF k < Len(s) THEN k ELSE Len(s))

Range(s) == {s[i] : i \in 1..Len(s)}

Reverse(s) == Tuple([i \in 1..Len(s) |-> s[Len(s) + 1 - i]])

\* the numbers of S in ascending order
AscSeq(S) ==
    LET asc(T) == Tuple([k \in 1..Cardinality(T) |->
                            CHOOSE x \in T : Cardinality({y \in T : y < x}) = k - 1])
    IN  CHOOSE q \in {asc(T) : T \in {S}} : TRUE

\* all orderings of the elements of the sequence s
RECURSIVE PermsOf(_)
PermsOf(s) ==
    IF Len(s) = 0 THEN {<<>>}
    ELSE UNION {{<<s[i]>> \o p :
                   p \in PermsOf([j \in 1..(Len(s) - 1) |->
                                     IF j < i THEN s[j] ELSE s[j + 1]])} :
                i \in 1..Len(s)}

-----------------------------------------------------------------------------
(* Exact rationals for chip amounts *)

Abs(x) == IF x < 0 THEN -x ELSE x

RECURSIVE Gcd(_, _)
Gcd(a, b) ==
    IF b = 0 THEN a ELSE CHOOSE g \in {Gcd(b, r) : r \in {a % b}} : TRUE

QNorm(n, d) ==
    LET s == IF d < 0 THEN -1 ELSE 1
    IN  CHOOSE q \in {<<(s * n) \div g, (s * d) \div g>> :
                         g \in {Gcd(Abs(n), Abs(d))}} : TRUE

Q(n) == <<n, 1>>

QAdd(a, b) == QNorm(a[1] * b[2] + b[1] * a[2], a[2] * b[2])

QSub(a, b) == QNorm(a[1] * b[2] - b[1] * a[2], a[2] * b[2])

QMul(a, b) == QNorm(a[1] * b[1], a[2] * b[2])

QDivInt(a, k) == QNorm(a[1], a[2] * k)

QLe(a, b) == a[1] * b[2] <= b[1] * a[2]

QLt(a, b) == a[1] * b[2] < b[1] * a[2]

QMin(a, b) == IF QLe(a, b) THEN a ELSE b

QZero == Q(0)

RECURSIVE QSum(_)
QSum(s) ==
    IF Len(s) = 0 THEN QZero
    ELSE CHOOSE q \in {QAdd(s[1], QSum(t)) : t \in {Tail(s)}} : TRUE

-----------------------------------------------------------------------------
(* deck.py: cards and the deck *)

\* Suit, in declaration order: HEARTS, DIAMONDS, CLUBS, SPADES
Suit == 0..3

\* Rank, in declaration order TWO..ACE; list(Rank).index(r) is the number
Rank == 0..12

Card(r, s) == [rank |-> r, suit |-> s]

\* Card.__lt__: by rank only
CardLt(a, b) == a.rank < b.rank

\* [Card(rank, suit) for suit in suits for rank in ranks], suit-major
create_deck(ranks, suits) ==
    [cards |-> Tuple([i \in 1..(Cardinality(ranks) * Cardinality(suits)) |->
                         Card(AscSeq(ranks)[((i - 1) % Cardinality(ranks)) + 1],
                              AscSeq(suits)[((i - 1) \div Cardinality(ranks)) + 1])]),
     discarded |-> {}]

\* Deck.shuffle: random.shuffle may leave the cards in any order
shuffle(d) == {[d EXCEPT !.cards = p] : p \in PermsOf(d.cards)}

\* a draw that forgets to record the card as discarded
draw_no_discard(d) ==
    IF Len(d.cards) = 0 THEN [deck |-> d, ret |-> NoCard]
    ELSE [deck |-> [d EXCEPT !.cards = Front(d.cards)], ret |-> Last(d.cards)]

\* a draw that takes the first card of the sequence instead of the last
draw_first(d) ==
    IF Len(d.cards) = 0 THEN [deck |-> d, ret |-> NoCard]
    ELSE [deck |-> [cards |-> Tail(d.cards),
                    discarded |-> d.discarded \cup {Head(d.cards)}],
          ret |-> Head(d.cards)]

\* Deck.draw: pop the last card, add it to discarded, return it
draw(d) ==
    IF Len(d.cards) = 0 THEN [deck |-> d, ret |-> NoCard]
    ELSE [deck |-> [cards |-> Front(d.cards),
                    discarded |-> d.discarded \cup {Last(d.cards)}],
          ret |-> Last(d.cards)]

\* Deck.remaining
remaining(d) == Len(d.cards)

\* list.remove(x): drop the first element equal to x
RemoveFirst(s, x) ==
    LET i == CHOOSE k \in 1..Len(s) : s[k] = x /\ \A j \in 1..(k - 1) : s[j] # x
    IN  Tuple([j \in 1..(Len(s) - 1) |-> IF j < i THEN s[j] ELSE s[j + 1]])

\* a deal_specific_card that hands out the card without looking for it
deal_specific_card_unchecked(d, r, s) ==
    [deck |-> [cards |-> SelectSeq(d.cards, LAMBDA c : c # Card(r, s)),
               discarded |-> d.discarded \cup {Card(r, s)}],
     ret |-> Card(r, s)]

\* Deck.deal_specific_card: remove the card if present (ValueError -> None)
deal_specific_card(d, r, s) ==
    IF Card(r, s) \in Range(d.cards)
    THEN [deck |-> [cards |-> RemoveFirst(d.cards, Card(r, s)),
                    discarded |-> d.discarded \cup {Card(r, s)}],
          ret |-> Card(r, s)]
    ELSE [deck |-> d, ret |-> NoCard]

-----------------------------------------------------------------------------
(* DeckSpec: one Deck object under arbitrary shuffle / draw /              *)
(* deal_specific_card / reset calls.  The deck is built from the ranks     *)
(* 0..NumDeckRanks-1 and the suits DeckSuits, so that every order of it    *)
(* can be enumerated.                                                      *)

DeckRanks == 0..(NumDeckRanks - 1)

DeckSuits == {0, 1}

DeckAll == {Card(r, s) : r \in DeckRanks, s \in DeckSuits}

DeckSize == Cardinality(DeckAll)

GameIdle ==
    /\ num_players = 2 /\ initial_stack = QZero /\ small_blind = QZero
    /\ big_blind = QZero /\ four_card_flop = FALSE /\ event_callback = FALSE
    /\ deck = [cards |-> <<>>, discarded |-> {}]
    /\ players = <<>> /\ community_cards = <<>> /\ pot = QZero
    /\ current_bet = QZero /\ button_pos = 0 /\ pc = "none" /\ street = 0
    /\ start_pos = 0 /\ current_pos = 0 /\ round_result = "none"
    /\ results = <<>> /\ events = <<>> /\ last_event = "none" 
    /\ hands_played = 0 /\ hand_chips = QZero /\ acted = {}
    /\ hand_stacks = <<>>
    /\ last_raiser = -1

\* no stand-alone Player: nothing held, nothing returned
NoStrength == [rank |-> 0, high_cards |-> <<>>]

EvalIdle == evHole = <<>> /\ evCommunity = <<>> /\ evStrength = NoStrength

\* Deck.__init__
DeckInit ==
    /\ dk = create_deck(DeckRanks, DeckSuits)
    /\ dkOp = [name |-> "init", rank |-> -1, suit |-> -1]
    /\ dkRet = NoCard
    /\ GameIdle
    /\ EvalIdle

DkShuffle ==
    /\ dk' \in shuffle(dk)
    /\ dkOp' = [name |-> "shuffle", rank |-> -1, suit |-> -1]
    /\ dkRet' = NoCard
    /\ UNCHANGED gameVars
    /\ UNCHANGED evalVars

DkDraw ==
    /\ dk' = draw(dk).deck
    /\ dkRet' = draw(dk).ret
    /\ dkOp' = [name |-> "draw", rank |-> -1, suit |-> -1]
    /\ UNCHANGED gameVars
    /\ UNCHANGED evalVars

DkDealSpecificCard ==
    \E r \in DeckRanks, s \in DeckSuits :
        /\ dk' = deal_specific_card(dk, r, s).deck
        /\ dkRet' = deal_specific_card(dk, r, s).ret
        /\ dkOp' = [name |-> "deal_specific_card", rank |-> r, suit |-> s]
        /\ UNCHANGED gameVars
        /\ UNCHANGED evalVars

\* Deck.reset: _create_deck, then shuffle
DkReset ==
    /\ dk' \in shuffle(create_deck(DeckRanks, DeckSuits))
    /\ dkOp' = [name |-> "reset", rank |-> -1, suit |-> -1]
    /\ dkRet' = NoCard
    /\ UNCHANGED gameVars
    /\ UNCHANGED evalVars

DeckNext == DkShuffle \/ DkDraw \/ DkDealSpecificCard \/ DkReset

DeckSpec == DeckInit /\ [][DeckNext]_vars

-----------------------------------------------------------------------------
(* player.py: hand evaluation *)

TWO == 0
THREE == 1
FOUR == 2
FIVE == 3
TEN == 8
JACK == 9
QUEEN == 10
KING == 11
ACE == 12

HIGH_CARD == 1
PAIR == 2
TWO_PAIR == 3
THREE_OF_A_KIND == 4
STRAIGHT == 5
FLUSH == 6
FULL_HOUSE == 7
FOUR_OF_A_KIND == 8
STRAIGHT_FLUSH == 9
ROYAL_FLUSH == 10

HandStrength(r, h) == [rank |-> r, high_cards |-> h]

\* a stable sort: Lt(a, b) says that a goes before b
StableSort(s, Lt(_, _)) ==
    LET pos(v, i) == 1 + Cardinality({j \in 1..Len(v) :
                        Lt(v[j], v[i]) \/ (~Lt(v[i], v[j]) /\ j < i)})
        place(v) == Tuple([i \in 1..Len(v) |-> pos(v, i)])
        put(v, at) == Tuple([k \in 1..Len(v) |->
                                v[CHOOSE i \in 1..Len(v) : at[i] = k]])
    IN  CHOOSE r \in {put(v, place(v)) : v \in {s}} : TRUE

CardGt(a, b) == CardLt(b, a)

\* sorted(cards)
sorted(cards) == StableSort(cards, CardLt)

\* sorted(cards, reverse=True)
sorted_reverse(cards) == StableSort(cards, CardGt)

RanksOf(cards) == Tuple([i \in 1..Len(cards) |-> cards[i].rank])

\* Counter(card.rank for card in cards): the ranks in order of first occurrence
CounterKeys(cards) ==
    LET first == {i \in 1..Len(cards) :
                    \A j \in 1..(i - 1) : cards[j].rank # cards[i].rank}
    IN  Tuple([k \in 1..Cardinality(first) |-> cards[AscSeq(first)[k]].rank])

CounterCount(cards, r) == Cardinality({i \in 1..Len(cards) : cards[i].rank = r})

OfRank(cards, r) == SelectSeq(cards, LAMBDA c : c.rank = r)

NotOfRank(cards, R) == SelectSeq(cards, LAMBDA c : c.rank \notin R)

\* the first element of the sequence s that satisfies Test, as a sequence of
\* at most one element
FirstWhere(s, Test(_)) == Take(SelectSeq(s, Test), 1)

\* Player._check_straight; <<>> stands for None
check_straight(cards) ==
    LET rankset == {cards[i].rank : i \in 1..Len(cards)}
        ranks == AscSeq(rankset)
        wheel == {ACE, TWO, THREE, FOUR, FIVE}
        runs == {i \in 1..(Len(ranks) - 4) :
                    \A j \in 0..3 : ranks[i + j + 1] - ranks[i + j] = 1}
    IN  IF wheel \subseteq rankset
        THEN sorted(SelectSeq(cards, LAMBDA c : c.rank \in wheel))
        ELSE IF runs # {}
        THEN LET i == CHOOSE k \in runs : \A m \in runs : k <= m
                 straight_ranks == {ranks[i + j] : j \in 0..4}
             IN  Take(sorted(SelectSeq(cards,
                          LAMBDA c : c.rank \in straight_ranks)), 5)
        ELSE <<>>

\* Player._check_straight_flush: the first suit, in Suit order, whose cards
\* hold a straight
check_straight_flush(cards) ==
    LET suited(s) == StableSort(SelectSeq(cards, LAMBDA c : c.suit = s), CardLt)
        hits == {s \in Suit : \E sc \in {suited(s)} : check_straight(sc) # <<>>}
    IN  IF hits = {} THEN <<>>
        ELSE CHOOSE r \in
               {check_straight(sc) :
                  sc \in {suited(CHOOSE s \in hits : \A t \in hits : s <= t)}} :
               TRUE

\* Player._check_four_of_a_kind: the four cards and the first other card
check_four_of_a_kind(cards) ==
    LET keys == CounterKeys(cards)
        hit == FirstWhere(keys, LAMBDA r : CounterCount(cards, r) = 4)
    IN  IF hit = <<>> THEN <<>>
        ELSE OfRank(cards, hit[1]) \o Take(NotOfRank(cards, {hit[1]}), 1)

\* Player._check_full_house: three_rank is the first key with count >= 3,
\* pair_rank the first other key with count >= 2
check_full_house(cards) ==
    LET keys == CounterKeys(cards)
        three == FirstWhere(keys, LAMBDA r : CounterCount(cards, r) >= 3)
        pair == IF three = <<>>
                THEN FirstWhere(keys, LAMBDA r : CounterCount(cards, r) >= 2)
                ELSE FirstWhere(keys, LAMBDA r :
                         r # three[1] /\ CounterCount(cards, r) >= 2)
    IN  IF three # <<>> /\ pair # <<>>
        THEN Take(OfRank(cards, three[1]), 3) \o Take(OfRank(cards, pair[1]), 2)
        ELSE <<>>

\* Player._check_flush: the first five cards of the first suit with five
check_flush(cards) ==
    LET suited(s) == SelectSeq(cards, LAMBDA c : c.suit = s)
        hits == {s \in Suit : Len(suited(s)) >= 5}
    IN  IF hits = {} THEN <<>>
        ELSE Take(suited(CHOOSE s \in hits : \A t \in hits : s <= t), 5)

\* Player._check_three_of_a_kind: three cards plus the first two others
check_three_of_a_kind(cards) ==
    LET keys == CounterKeys(cards)
        hit == FirstWhere(keys, LAMBDA r : CounterCount(cards, r) >= 3)
    IN  IF hit = <<>> THEN <<>>
        ELSE Take(OfRank(cards, hit[1]), 3) \o Take(NotOfRank(cards, {hit[1]}), 2)

\* Player._check_two_pair: two cards of each of the first two paired ranks
\* plus the first other card
check_two_pair(cards) ==
    LET keys == CounterKeys(cards)
        pairs == SelectSeq(keys, LAMBDA r : CounterCount(cards, r) >= 2)
    IN  IF Len(pairs) >= 2
        THEN Take(OfRank(cards, pairs[1]), 2) \o Take(OfRank(cards, pairs[2]), 2)
             \o Take(NotOfRank(cards, {pairs[1], pairs[2]}), 1)
        ELSE <<>>

\* a pair check that returns the two paired cards alone
check_pair_two_cards(cards) ==
    LET keys == CounterKeys(cards)
        hit == FirstWhere(keys, LAMBDA r : CounterCount(cards, r) >= 2)
    IN  IF hit = <<>> THEN <<>>
        ELSE Take(OfRank(cards, hit[1]), 2)

\* Player._check_pair: two cards plus the first three others
check_pair(cards) ==
    LET keys == CounterKeys(cards)
        hit == FirstWhere(keys, LAMBDA r : CounterCount(cards, r) >= 2)
    IN  IF hit = <<>> THEN <<>>
        ELSE Take(OfRank(cards, hit[1]), 2) \o Take(NotOfRank(cards, {hit[1]}), 3)

\* an evaluation that does not look for a straight flush
evaluate_cards_no_straight_flush(cards) ==
    LET ranked(sorted_cards) ==
        LET top5 == HandStrength(HIGH_CARD, RanksOf(Take(sorted_cards, 5)))
            four_kind == check_four_of_a_kind(sorted_cards)
            full_house == check_full_house(sorted_cards)
            flush == check_flush(sorted_cards)
            straight == check_straight(sorted_cards)
            three_kind == check_three_of_a_kind(sorted_cards)
            two_pair == check_two_pair(sorted_cards)
            pair == check_pair(sorted_cards)
        IN  IF four_kind # <<>> THEN
                IF Len(four_kind) = 4
                THEN HandStrength(FOUR_OF_A_KIND, <<four_kind[1].rank>>)
                ELSE top5
            ELSE IF full_house # <<>> THEN
                IF Len(full_house) = 5
                THEN HandStrength(FULL_HOUSE, <<full_house[1].rank>>)
                ELSE top5
            ELSE IF flush # <<>> THEN
                IF Len(flush) = 5
                THEN HandStrength(FLUSH, RanksOf(Take(flush, 5)))
                ELSE top5
            ELSE IF straight # <<>> THEN
                IF Len(straight) = 5
                THEN HandStrength(STRAIGHT, <<straight[1].rank>>)
                ELSE top5
            ELSE IF three_kind # <<>> THEN
                IF Len(three_kind) = 3
                THEN HandStrength(THREE_OF_A_KIND, <<three_kind[1].rank>>)
                ELSE top5
            ELSE IF two_pair # <<>> THEN
                IF Len(two_pair) = 4
                THEN HandStrength(TWO_PAIR, RanksOf(Take(two_pair, 4)))
                ELSE top5
            ELSE IF pair # <<>> THEN
                IF Len(pair) = 2
                THEN HandStrength(PAIR, RanksOf(Take(pair, 2)))
                ELSE top5
            ELSE top5
    IN  CHOOSE r \in {ranked(sc) : sc \in {sorted_reverse(cards)}} : TRUE

\* Player._evaluate_cards: the categories strongest first; a detector whose
\* result has not the expected length falls back to HIGH_CARD
evaluate_cards(cards) ==
    LET ranked(sorted_cards) ==
        LET top5 == HandStrength(HIGH_CARD, RanksOf(Take(sorted_cards, 5)))
            straight_flush == check_straight_flush(sorted_cards)
            four_kind == check_four_of_a_kind(sorted_cards)
            full_house == check_full_house(sorted_cards)
            flush == check_flush(sorted_cards)
            straight == check_straight(sorted_cards)
            three_kind == check_three_of_a_kind(sorted_cards)
            two_pair == check_two_pair(sorted_cards)
            pair == check_pair(sorted_cards)
        IN  IF straight_flush # <<>> THEN
                IF Len(straight_flush) = 5 THEN
                    IF straight_flush[1].rank = ACE
                    THEN HandStrength(ROYAL_FLUSH, <<>>)
                    ELSE HandStrength(STRAIGHT_FLUSH, <<straight_flush[1].rank>>)
                ELSE top5
            ELSE IF four_kind # <<>> THEN
                IF Len(four_kind) = 4
                THEN HandStrength(FOUR_OF_A_KIND, <<four_kind[1].rank>>)
                ELSE top5
            ELSE IF full_house # <<>> THEN
                IF Len(full_house) = 5
                THEN HandStrength(FULL_HOUSE, <<full_house[1].rank>>)
                ELSE top5
            ELSE IF flush # <<>> THEN
                IF Len(flush) = 5
                THEN HandStrength(FLUSH, RanksOf(Take(flush, 5)))
                ELSE top5
            ELSE IF straight # <<>> THEN
                IF Len(straight) = 5
                THEN HandStrength(STRAIGHT, <<straight[1].rank>>)
                ELSE top5
            ELSE IF three_kind # <<>> THEN
                IF Len(three_kind) = 3
                THEN HandStrength(THREE_OF_A_KIND, <<three_kind[1].rank>>)
                ELSE top5
            ELSE IF two_pair # <<>> THEN
                IF Len(two_pair) = 4
                THEN HandStrength(TWO_PAIR, RanksOf(Take(two_pair, 4)))
                ELSE top5
            ELSE IF pair # <<>> THEN
                IF Len(pair) = 2
                THEN HandStrength(PAIR, RanksOf(Take(pair, 2)))
                ELSE top5
            ELSE top5
    IN  CHOOSE r \in {ranked(sc) : sc \in {sorted_reverse(cards)}} : TRUE

Max2(a, b) == IF a >= b THEN a ELSE b

\* an evaluation whose pocket pairs count as PAIR from Jack on
evaluate_hand_pair_from_jack(hole_cards, community) ==
    IF Len(community) = 0
    THEN IF hole_cards[1].rank = hole_cards[2].rank
         THEN IF hole_cards[1].rank >= JACK
              THEN HandStrength(PAIR, <<hole_cards[1].rank>>)
              ELSE HandStrength(HIGH_CARD, <<hole_cards[1].rank>>)
         ELSE IF Max2(hole_cards[1].rank, hole_cards[2].rank) >= JACK
              THEN HandStrength(HIGH_CARD,
                                <<Max2(hole_cards[1].rank, hole_cards[2].rank)>>)
              ELSE HandStrength(HIGH_CARD, <<0>>)
    ELSE evaluate_cards(hole_cards \o community)

\* Player.evaluate_hand: the pre-flop heuristic without community cards,
\* _evaluate_cards otherwise
evaluate_hand(hole_cards, community) ==
    IF Len(community) = 0
    THEN IF hole_cards[1].rank = hole_cards[2].rank
         THEN IF hole_cards[1].rank >= TEN
              THEN HandStrength(PAIR, <<hole_cards[1].rank>>)
              ELSE HandStrength(HIGH_CARD, <<hole_cards[1].rank>>)
         ELSE IF Max2(hole_cards[1].rank, hole_cards[2].rank) >= JACK
              THEN HandStrength(HIGH_CARD,
                                <<Max2(hole_cards[1].rank, hole_cards[2].rank)>>)
              ELSE HandStrength(HIGH_CARD, <<0>>)
    ELSE evaluate_cards(hole_cards \o community)

-----------------------------------------------------------------------------
(* EvalSpec: one Player holding two hole cards, shown a board street by    *)
(* street and asked to evaluate its hand.                                  *)

\* the hole cards a Player may hold: every pair of ranks in diamonds and
\* clubs, and some suited and paired hands
EvalHoles ==
    {<<Card(r1, 1), Card(r2, 2)>> : r1, r2 \in Rank}
    \cup { <<Card(7, 3), Card(8, 3)>>,      \* 9s 10s
           <<Card(12, 3), Card(11, 3)>>,    \* As Ks
           <<Card(0, 0), Card(5, 0)>>,      \* 2h 7h
           <<Card(12, 0), Card(3, 0)>>,     \* Ah 5h
           <<Card(12, 0), Card(12, 1)>> }   \* Ah Ad

\* the boards: flop, turn, river
EvalBoards ==
    { <<Card(1, 2), Card(2, 3), Card(3, 0), Card(4, 1), Card(5, 2)>>,    \* 3c 4s 5h 6d 7c
      <<Card(9, 3), Card(10, 3), Card(11, 3), Card(12, 3), Card(0, 2)>>, \* Js Qs Ks As 2c
      <<Card(10, 3), Card(9, 3), Card(8, 3), Card(7, 3), Card(0, 1)>>,   \* Qs Js 10s 9s 2d
      <<Card(12, 2), Card(11, 3), Card(10, 3), Card(11, 1), Card(0, 3)>>,\* Ac Ks Qs Kd 2s
      <<Card(7, 0), Card(9, 0), Card(11, 0), Card(1, 0), Card(7, 2)>>,   \* 9h Jh Kh 3h 9c
      <<Card(0, 3), Card(1, 1), Card(2, 0), Card(3, 3), Card(12, 2)>>,   \* 2s 3d 4h 5s Ac
      <<Card(6, 0), Card(6, 3), Card(1, 3), Card(1, 0), Card(11, 0)>> }  \* 8h 8s 3s 3h Kh

\* Player.__init__ and two receive_card calls
EvalInit ==
    /\ evHole \in EvalHoles
    /\ evCommunity = <<>>
    /\ evStrength = NoStrength
    /\ dk = [cards |-> <<>>, discarded |-> {}]
    /\ dkOp = [name |-> "init", rank |-> -1, suit |-> -1]
    /\ dkRet = NoCard
    /\ GameIdle

\* the boards that share no card with the hole cards and begin with the
\* community cards shown so far
EvalBoardsLeft ==
    {b \in EvalBoards : /\ Range(b) \cap Range(evHole) = {}
                        /\ Take(b, Len(evCommunity)) = evCommunity}

\* deal_flop: three community cards
EvDealFlop ==
    /\ Len(evCommunity) = 0
    /\ \E b \in EvalBoardsLeft : evCommunity' = Take(b, 3)
    /\ evStrength' = NoStrength
    /\ UNCHANGED <<evHole, deckVars, gameVars>>

\* deal_turn: a fourth community card
EvDealTurn ==
    /\ Len(evCommunity) = 3
    /\ \E b \in EvalBoardsLeft : evCommunity' = Take(b, 4)
    /\ evStrength' = NoStrength
    /\ UNCHANGED <<evHole, deckVars, gameVars>>

\* deal_river: a fifth community card
EvDealRiver ==
    /\ Len(evCommunity) = 4
    /\ \E b \in EvalBoardsLeft : evCommunity' = Take(b, 5)
    /\ evStrength' = NoStrength
    /\ UNCHANGED <<evHole, deckVars, gameVars>>

\* player.evaluate_hand(community_cards)
EvEvaluate ==
    /\ evStrength' = evaluate_hand(evHole, evCommunity)
    /\ UNCHANGED <<evHole, evCommunity, deckVars, gameVars>>

EvalNext == EvDealFlop \/ EvDealTurn \/ EvDealRiver \/ EvEvaluate

EvalSpec == EvalInit /\ [][EvalNext]_vars

-----------------------------------------------------------------------------
(* player.py: the decision policy *)

Decision(a, amt) == [action |-> a, amount |-> amt]

\* position_ranks.get(self.position, 0)
position_strength(position) ==
    CASE position = "BTN" -> 5
      [] position = "CO" -> 4
      [] position = "MP" -> 3
      [] position = "UTG" -> 2
      [] position = "BB" -> 1
      [] position = "SB" -> 0
      [] OTHER -> 0

\* Player._preflop_strategy
preflop_strategy(p, to_call, the_pot, is_late_position) ==
    LET has_pair == Len(p.hole_cards) = 2
                    /\ p.hole_cards[1].rank = p.hole_cards[2].rank
        high_cards == SelectSeq(p.hole_cards,
                                LAMBDA c : c.rank \in {ACE, KING, QUEEN})
    IN  IF has_pair THEN
            IF to_call = QZero
            THEN Decision("raise", QMin(QMul(the_pot, QNorm(3, 4)), p.stack))
            ELSE IF QLe(to_call, QMul(p.stack, QNorm(1, 10)))
            THEN Decision("call", to_call)
            ELSE Decision("fold", QZero)
        ELSE IF Len(high_cards) >= 1 THEN
            IF is_late_position /\ to_call = QZero
            THEN Decision("raise", QMin(QMul(the_pot, QNorm(1, 2)), p.stack))
            ELSE IF is_late_position
                    /\ QLe(to_call, QMul(p.stack, QNorm(1, 20)))
            THEN Decision("call", to_call)
            ELSE Decision("fold", QZero)
        ELSE IF to_call = QZero
             THEN Decision("call", QZero)
             ELSE Decision("fold", QZero)

\* a post-flop policy whose raise with a strong hand is the pot, whatever the
\* stack
postflop_strategy_uncapped(p, hand_strength, to_call, the_pot, is_late_position) ==
    IF hand_strength.rank >= THREE_OF_A_KIND THEN
        IF to_call = QZero
        THEN Decision("raise", the_pot)
        ELSE IF QLe(to_call, QMul(p.stack, QNorm(3, 10)))
        THEN Decision("call", to_call)
        ELSE Decision("fold", QZero)
    ELSE IF hand_strength.rank >= PAIR /\ is_late_position THEN
        IF to_call = QZero
        THEN Decision("raise", QMin(QMul(the_pot, QNorm(1, 2)), p.stack))
        ELSE IF QLe(to_call, QMul(p.stack, QNorm(1, 10)))
        THEN Decision("call", to_call)
        ELSE Decision("fold", QZero)
    ELSE IF to_call = QZero
    THEN Decision("call", QZero)
    ELSE IF QLe(to_call, QMul(p.stack, QNorm(1, 20)))
    THEN Decision("call", to_call)
    ELSE Decision("fold", QZero)

\* Player._postflop_strategy
postflop_strategy(p, hand_strength, to_call, the_pot, is_late_position) ==
    IF hand_strength.rank >= THREE_OF_A_KIND THEN
        IF to_call = QZero
        THEN Decision("raise", QMin(the_pot, p.stack))
        ELSE IF QLe(to_call, QMul(p.stack, QNorm(3, 10)))
        THEN Decision("call", to_call)
        ELSE Decision("fold", QZero)
    ELSE IF hand_strength.rank >= PAIR /\ is_late_position THEN
        IF to_call = QZero
        THEN Decision("raise", QMin(QMul(the_pot, QNorm(1, 2)), p.stack))
        ELSE IF QLe(to_call, QMul(p.stack, QNorm(1, 10)))
        THEN Decision("call", to_call)
        ELSE Decision("fold", QZero)
    ELSE IF to_call = QZero
    THEN Decision("call", QZero)
    ELSE IF QLe(to_call, QMul(p.stack, QNorm(1, 20)))
    THEN Decision("call", to_call)
    ELSE Decision("fold", QZero)

\* a policy that calls with a stack smaller than the amount to call
make_decision_calls_short(p, to_call, the_pot, community) ==
    IF QLt(p.stack, to_call) THEN Decision("call", to_call)
    ELSE IF Len(community) = 0
    THEN preflop_strategy(p, to_call, the_pot,
                          position_strength(p.position) >= 4)
    ELSE CHOOSE d \in {postflop_strategy(p, hs, to_call, the_pot,
                                         position_strength(p.position) >= 4) :
                       hs \in {evaluate_hand(p.hole_cards, community)}} : TRUE

\* Player.make_decision
make_decision(p, to_call, the_pot, community) ==
    IF QLt(p.stack, to_call) THEN Decision("fold", QZero)
    ELSE IF Len(community) = 0
    THEN preflop_strategy(p, to_call, the_pot,
                          position_strength(p.position) >= 4)
    ELSE CHOOSE d \in {postflop_strategy(p, hs, to_call, the_pot,
                                         position_strength(p.position) >= 4) :
                       hs \in {evaluate_hand(p.hole_cards, community)}} : TRUE

-----------------------------------------------------------------------------
(* game.py: PokerGame *)

Seats == 0..(num_players - 1)

ActiveSeats == {i \in Seats : players[i].is_active}

\* Player.__init__
NewPlayer(stack) ==
    [stack |-> stack, hole_cards |-> <<>>, current_bet |-> QZero,
     is_active |-> TRUE, position |-> "BTN", folded |-> FALSE]

GameEvent(type, player, amount, cards) ==
    [type |-> type, player |-> player, amount |-> amount, cards |-> cards]

\* an emitter that delivers new events ahead of the earlier ones
Emitted_at_front(log, evs) ==
    IF event_callback THEN Take(evs \o log, MaxEvents) ELSE log

\* PokerGame._emit_event for a sequence of events: delivered only with a
\* callback registered.  The log keeps the first MaxEvents events of a hand.
Emitted(log, evs) ==
    IF event_callback THEN Take(log \o evs, MaxEvents) ELSE log

LastEmitted(prev, evs) ==
    IF event_callback /\ Len(evs) > 0 THEN Last(evs).type ELSE prev

\* the sum of all players' stacks
TotalStacks(pl) == QSum(Tuple([k \in 1..num_players |-> pl[k - 1].stack]))

\* seat labels with a single name for every seat past the cut-off
position_label_one_mp(pos) ==
    IF pos < 6
    THEN <<"BTN", "SB", "BB", "UTG", "MP", "CO">>[pos + 1]
    ELSE "MP"

\* the seat labels of reset_hand
position_label(pos) ==
    IF pos < 6
    THEN <<"BTN", "SB", "BB", "UTG", "MP", "CO">>[pos + 1]
    ELSE <<"MP2", "MP3", "MP4">>[pos - 5]

\* the stakes a game is constructed with
StakeChoices ==
    {[initial_stack |-> Q(100), small_blind |-> Q(5), big_blind |-> Q(10)],
     [initial_stack |-> Q(200), small_blind |-> Q(5), big_blind |-> Q(10)],
     [initial_stack |-> Q(5), small_blind |-> Q(5), big_blind |-> Q(10)]}

\* PokerGame.__init__
Init ==
    /\ dk = create_deck(DeckRanks, DeckSuits)
    /\ dkOp = [name |-> "init", rank |-> -1, suit |-> -1]
    /\ dkRet = NoCard
    /\ EvalIdle
    /\ num_players \in 2..MaxPlayers
    /\ \E st \in StakeChoices :
          /\ initial_stack = st.initial_stack
          /\ small_blind = st.small_blind
          /\ big_blind = st.big_blind
          /\ players = [i \in 0..(num_players - 1) |-> NewPlayer(st.initial_stack)]
    /\ four_card_flop \in BOOLEAN
    /\ event_callback = FALSE
    /\ deck = create_deck(Rank, Suit)
    /\ community_cards = <<>>
    /\ pot = QZero
    /\ current_bet = QZero
    /\ button_pos = 0
    /\ pc = "idle"
    /\ street = 0
    /\ start_pos = 0
    /\ current_pos = 0
    /\ round_result = "none"
    /\ results = <<>>
    /\ events = <<>>
    /\ last_event = "none"
    /\ hands_played = 0
    /\ hand_chips = QZero
    /\ hand_stacks = <<>>
    /\ acted = {}
    /\ last_raiser = -1

config == <<num_players, initial_stack, small_blind, big_blind, four_card_flop>>

\* PokerGame.set_event_callback
SetEventCallback ==
    /\ pc = "idle"
    /\ ~event_callback
    /\ event_callback' = TRUE
    /\ UNCHANGED <<config, deck, players, community_cards, pot, current_bet,
                   button_pos, pc, street, start_pos, current_pos,
                   round_result, results, events, last_event, hands_played,
                   hand_chips, hand_stacks, acted,
                   last_raiser>>
    /\ UNCHANGED deckVars
    /\ UNCHANGED evalVars

\* a reset that leaves every player's current_bet as the last hand left it
ResetHand_keeps_bets ==
    /\ pc = "idle"
    /\ hands_played < MaxHands
    /\ LET button == (button_pos + 1) % num_players
           busted == {i \in Seats : QLe(players[i].stack, QZero)}
           resets == Tuple([k \in 1..Cardinality(busted) |->
                              GameEvent("stack_reset", AscSeq(busted)[k],
                                        initial_stack, <<>>)])
           pl == [i \in Seats |->
                    [stack |-> IF i \in busted THEN initial_stack
                               ELSE players[i].stack,
                     hole_cards |-> <<>>,
                     current_bet |-> players[i].current_bet,
                     is_active |-> TRUE,
                     position |-> position_label((i - button) % num_players),
                     folded |-> FALSE]]
       IN  /\ deck' = create_deck(Rank, Suit)
           /\ community_cards' = <<>>
           /\ pot' = QZero
           /\ current_bet' = QZero
           /\ button_pos' = button
           /\ players' = pl
           /\ events' = Emitted(<<>>, resets)
           /\ last_event' = LastEmitted("none", resets)
           /\ hand_chips' = TotalStacks(pl)
           /\ hand_stacks' = [i \in Seats |-> pl[i].stack]
    /\ pc' = "blinds"
    /\ street' = 0
    /\ round_result' = "none"
    /\ results' = <<>>
    /\ acted' = {}
    /\ last_raiser' = -1
    /\ UNCHANGED <<config, event_callback, start_pos, current_pos, hands_played>>
    /\ UNCHANGED deckVars
    /\ UNCHANGED evalVars

\* PokerGame.reset_hand, called first by play_hand
ResetHand ==
    /\ pc = "idle"
    /\ hands_played < MaxHands
    /\ LET button == (button_pos + 1) % num_players
           busted == {i \in Seats : QLe(players[i].stack, QZero)}
           resets == Tuple([k \in 1..Cardinality(busted) |->
                              GameEvent("stack_reset", AscSeq(busted)[k],
                                        initial_stack, <<>>)])
           pl == [i \in Seats |->
                    [stack |-> IF i \in busted THEN initial_stack
                               ELSE players[i].stack,
                     hole_cards |-> <<>>,
                     current_bet |-> QZero,
                     is_active |-> TRUE,
                     position |-> position_label((i - button) % num_players),
                     folded |-> FALSE]]
       IN  /\ deck' = create_deck(Rank, Suit)
           /\ community_cards' = <<>>
           /\ pot' = QZero
           /\ current_bet' = QZero
           /\ button_pos' = button
           /\ players' = pl
           /\ events' = Emitted(<<>>, resets)
           /\ last_event' = LastEmitted("none", resets)
           /\ hand_chips' = TotalStacks(pl)
           /\ hand_stacks' = [i \in Seats |-> pl[i].stack]
    /\ pc' = "blinds"
    /\ street' = 0
    /\ round_result' = "none"
    /\ results' = <<>>
    /\ acted' = {}
    /\ last_raiser' = -1
    /\ UNCHANGED <<config, event_callback, start_pos, current_pos, hands_played>>
    /\ UNCHANGED deckVars
    /\ UNCHANGED evalVars

\* blinds of which the big one is entered as a bet without being paid
PostBlinds_big_blind_unpaid ==
    /\ pc = "blinds"
    /\ LET sb_pos == (button_pos + 1) % num_players
           bb_pos == (button_pos + 2) % num_players
           p1 == [players EXCEPT ![sb_pos].stack = QSub(@, small_blind),
                                 ![sb_pos].current_bet = small_blind]
           p2 == [p1 EXCEPT ![bb_pos].current_bet = big_blind]
           evs == <<GameEvent("small_blind", sb_pos, small_blind, <<>>),
                    GameEvent("big_blind", bb_pos, big_blind, <<>>)>>
       IN  /\ players' = p2
           /\ pot' = QAdd(QAdd(pot, small_blind), big_blind)
           /\ current_bet' = big_blind
           /\ events' = Emitted(events, evs)
           /\ last_event' = LastEmitted(last_event, evs)
    /\ pc' = "deal"
    /\ UNCHANGED <<config, event_callback, deck, community_cards, button_pos,
                   street, start_pos, current_pos, round_result, results,
                   hands_played, hand_chips, hand_stacks, acted, last_raiser>>
    /\ UNCHANGED deckVars
    /\ UNCHANGED evalVars

\* play_hand: post the blinds
PostBlinds ==
    /\ pc = "blinds"
    /\ LET sb_pos == (button_pos + 1) % num_players
           bb_pos == (button_pos + 2) % num_players
           p1 == [players EXCEPT ![sb_pos].stack = QSub(@, small_blind),
                                 ![sb_pos].current_bet = small_blind]
           pot1 == QAdd(pot, small_blind)
           p2 == [p1 EXCEPT ![bb_pos].stack = QSub(@, big_blind),
                            ![bb_pos].current_bet = big_blind]
           pot2 == QAdd(pot1, big_blind)
           evs == <<GameEvent("small_blind", sb_pos, small_blind, <<>>),
                    GameEvent("big_blind", bb_pos, big_blind, <<>>)>>
       IN  /\ players' = p2
           /\ pot' = pot2
           /\ current_bet' = big_blind
           /\ events' = Emitted(events, evs)
           /\ last_event' = LastEmitted(last_event, evs)
    /\ pc' = "deal"
    /\ UNCHANGED <<config, event_callback, deck, community_cards, button_pos,
                   street, start_pos, current_pos, round_result, results,
                   hands_played, hand_chips, hand_stacks, acted, last_raiser>>
    /\ UNCHANGED deckVars
    /\ UNCHANGED evalVars

\* The hole cards and boards the shuffle may bring to the top of the deck:
\* a low pair, a weak hand, a king with a low card, a high pair; a high
\* board, a board that gives the low pair a full house on the flop, on the
\* turn or on the river, and a board that is a straight by itself.
HoleChoices ==
    << <<Card(3, 3), Card(3, 0)>>,      \* 5s 5h
       <<Card(5, 0), Card(0, 1)>>,      \* 7h 2d
       <<Card(11, 3), Card(1, 2)>>,     \* Ks 3c
       <<Card(9, 1), Card(9, 0)>> >>    \* Jd Jh

BoardChoices ==
    { <<Card(12, 3), Card(11, 1), Card(10, 2), Card(9, 2), Card(7, 3), Card(4, 1)>>,
      <<Card(3, 1), Card(7, 2), Card(7, 1), Card(11, 2), Card(0, 3), Card(1, 1)>>,
      <<Card(3, 1), Card(7, 2), Card(11, 2), Card(7, 1), Card(0, 3), Card(1, 1)>>,
      <<Card(3, 1), Card(7, 2), Card(11, 2), Card(0, 3), Card(7, 1), Card(1, 1)>>,
      <<Card(4, 2), Card(5, 1), Card(6, 3), Card(7, 0), Card(8, 2), Card(0, 2)>> }

\* the cards drawn first after a shuffle: one card to each seat, a second
\* card to each seat, then the board
TopChoices ==
    {Tuple([k \in 1..(2 * num_players) |->
               HoleChoices[((((k - 1) % num_players) + r) % Len(HoleChoices)) + 1]
                          [((k - 1) \div num_players) + 1]]) \o b :
       r \in 0..(Len(HoleChoices) - 1), b \in BoardChoices}

\* Deck.shuffle inside a game: random.shuffle may leave the cards in any
\* order; the orders explored are those that bring one of TopChoices to the
\* end of the sequence, from where draw pops
shuffle_choices(d) ==
    {[d EXCEPT !.cards = SelectSeq(d.cards, LAMBDA c : c \notin Range(top))
                         \o Reverse(top)] : top \in TopChoices}

\* k draws from the deck d, each card drawn appended to acc (a draw from an
\* empty deck adds nothing)
RECURSIVE DrawInto(_, _, _)
DrawInto(d, acc, k) ==
    IF k = 0 THEN [deck |-> d, cards |-> acc]
    ELSE CHOOSE res \in
             {DrawInto(r.deck,
                       IF r.ret = NoCard THEN acc ELSE Append(acc, r.ret),
                       k - 1) : r \in {draw(d)}} : TRUE

\* a deal that gives a seat both of its cards before it serves the next
RECURSIVE DealFrom_two_each(_, _, _)
DealFrom_two_each(d, pl, k) ==
    IF k = 2 * num_players THEN [deck |-> d, players |-> pl]
    ELSE LET i == k \div 2
         IN  IF pl[i].is_active
             THEN CHOOSE res \in
                      {DealFrom_two_each(r.deck,
                                IF r.ret = NoCard THEN pl
                                ELSE [pl EXCEPT ![i].hole_cards =
                                                    Append(@, r.ret)],
                                k + 1) : r \in {draw(d)}} : TRUE
             ELSE DealFrom_two_each(d, pl, k + 1)

\* the loops of deal_hole_cards from step k on: step k serves seat
\* k % num_players
RECURSIVE DealFrom(_, _, _)
DealFrom(d, pl, k) ==
    IF k = 2 * num_players THEN [deck |-> d, players |-> pl]
    ELSE LET i == k % num_players
         IN  IF pl[i].is_active
             THEN CHOOSE res \in
                      {DealFrom(r.deck,
                                IF r.ret = NoCard THEN pl
                                ELSE [pl EXCEPT ![i].hole_cards =
                                                    Append(@, r.ret)],
                                k + 1) : r \in {draw(d)}} : TRUE
             ELSE DealFrom(d, pl, k + 1)

\* PokerGame.deal_hole_cards and the deal events of play_hand
DealHoleCards ==
    /\ pc = "deal"
    /\ \E shuffled \in shuffle_choices(deck) :
          LET r == DealFrom(shuffled, players, 0)
              evs == Tuple([k \in 1..num_players |->
                              GameEvent("deal", k - 1, QZero, r.players[k - 1].hole_cards)])
          IN  /\ deck' = r.deck
              /\ players' = r.players
              /\ events' = Emitted(events, evs)
              /\ last_event' = LastEmitted(last_event, evs)
    /\ pc' = "round"
    /\ UNCHANGED <<config, event_callback, community_cards, pot, current_bet,
                   button_pos, street, start_pos, current_pos, round_result,
                   results, hands_played, hand_chips, hand_stacks, acted,
                   last_raiser>>
    /\ UNCHANGED deckVars
    /\ UNCHANGED evalVars

\* _betting_round up to its loop: fewer than two active players end it at
\* once, otherwise action starts at the seat after the big blind
BettingRoundStart ==
    /\ pc = "round"
    /\ IF Cardinality(ActiveSeats) <= 1
       THEN /\ round_result' = "early_end"
            /\ pc' = "resolve"
            /\ UNCHANGED <<start_pos, current_pos>>
       ELSE /\ start_pos' = (button_pos + 3) % num_players
            /\ current_pos' = (button_pos + 3) % num_players
            /\ round_result' = "none"
            /\ pc' = "betting"
    /\ acted' = {}
    /\ last_raiser' = -1
    /\ UNCHANGED <<config, event_callback, deck, players, community_cards, pot,
                   current_bet, button_pos, street, results, events,
                   last_event, hands_played, hand_chips, hand_stacks>>
    /\ UNCHANGED deckVars
    /\ UNCHANGED evalVars

\* a betting loop that asks the seat at pos whether or not it is active
NextActive_no_skip(pl, pos) == pos

\* the first active seat at or after pos
RECURSIVE NextActive(_, _)
NextActive(pl, pos) ==
    IF pl[pos].is_active THEN pos ELSE NextActive(pl, (pos + 1) % num_players)

\* the fold branch of _betting_round
ApplyFold(g, pos) ==
    [g EXCEPT !.players[pos].is_active = FALSE,
              !.event = GameEvent("fold", pos, QZero, <<>>)]

\* a call that puts chips into the pot without taking them from the stack
ApplyCall_no_debit(g, pos) ==
    LET call_amount == QSub(g.current_bet, g.players[pos].current_bet)
    IN  [g EXCEPT !.players[pos].current_bet = g.current_bet,
                  !.pot = QAdd(@, call_amount),
                  !.event = GameEvent("call", pos, call_amount, <<>>)]

\* the call branch of _betting_round
ApplyCall(g, pos) ==
    LET call_amount == QSub(g.current_bet, g.players[pos].current_bet)
    IN  [g EXCEPT !.players[pos].stack = QSub(@, call_amount),
                  !.players[pos].current_bet = g.current_bet,
                  !.pot = QAdd(@, call_amount),
                  !.event = GameEvent("call", pos, call_amount, <<>>)]

\* a raise that records the bet and grows the pot without taking the chips
\* from the stack
ApplyRaise_no_debit(g, pos, amount) ==
    LET raise_amount == QSub(amount, g.players[pos].current_bet)
    IN  [g EXCEPT !.players[pos].current_bet = amount,
                  !.pot = QAdd(@, raise_amount),
                  !.current_bet = amount,
                  !.event = GameEvent("raise", pos, raise_amount, <<>>)]

\* the raise branch of _betting_round
ApplyRaise(g, pos, amount) ==
    LET raise_amount == QSub(amount, g.players[pos].current_bet)
    IN  [g EXCEPT !.players[pos].stack = QSub(@, raise_amount),
                  !.players[pos].current_bet = amount,
                  !.pot = QAdd(@, raise_amount),
                  !.current_bet = amount,
                  !.event = GameEvent("raise", pos, raise_amount, <<>>)]

\* a play_hand that goes to the showdown right after the turn round
AfterRound_no_river(st) ==
    CASE st = 0 -> "deal_flop"
      [] st = 1 -> "deal_turn"
      [] OTHER -> "resolve"

\* what play_hand does after a betting round that returned True
AfterRound(st) ==
    CASE st = 0 -> "deal_flop"
      [] st = 1 -> "deal_turn"
      [] st = 2 -> "deal_river"
      [] OTHER -> "resolve"

\* an end-of-round test that ends the round at start_pos whatever the bets
round_outcome_bets_unchecked(n_active, all_called, pos) ==
    IF n_active <= 1 THEN "early_end"
    ELSE IF pos = start_pos THEN "continue"
    ELSE "none"

\* an end-of-round test without the check for a single remaining player
round_outcome_no_early_end(n_active, all_called, pos) ==
    IF all_called /\ pos = start_pos THEN "continue" ELSE "none"

\* the end-of-round test of _betting_round after an action: False
\* ("early_end") with at most one active player, True ("continue") when all
\* active bets are matched and the seat is start_pos, otherwise go on
round_outcome(n_active, all_called, pos) ==
    IF n_active <= 1 THEN "early_end"
    ELSE IF all_called /\ pos = start_pos THEN "continue"
    ELSE "none"

\* one pass of the loop of _betting_round: skip the inactive seats, ask the
\* player for a decision, apply it, then test for the end of the round
BettingTurn ==
    /\ pc = "betting"
    /\ \E pos \in {NextActive(players, current_pos)} :
       \E d \in {make_decision(players[pos],
                               QSub(current_bet, players[pos].current_bet),
                               pot, community_cards)} :
       \E g0 \in {[players |-> players, pot |-> pot,
                   current_bet |-> current_bet,
                   event |-> GameEvent("none", pos, QZero, <<>>)]} :
       \E g \in {CASE d.action = "fold" -> ApplyFold(g0, pos)
                   [] d.action = "call" -> ApplyCall(g0, pos)
                   [] d.action = "raise" -> ApplyRaise(g0, pos, d.amount)} :
          LET active == {i \in Seats : g.players[i].is_active}
              all_called == \A i \in Seats :
                               ~g.players[i].is_active
                               \/ g.players[i].current_bet = g.current_bet
          IN  /\ players' = g.players
              /\ pot' = g.pot
              /\ current_bet' = g.current_bet
              /\ events' = Emitted(events, <<g.event>>)
              /\ last_event' = LastEmitted(last_event, <<g.event>>)
              /\ acted' = IF d.action = "raise" THEN {pos}
                          ELSE acted \cup {pos}
              /\ last_raiser' = IF d.action = "raise" THEN pos
                                ELSE last_raiser
              /\ round_result' =
                     round_outcome(Cardinality(active), all_called, pos)
              /\ pc' = CASE round_result' = "early_end" -> "resolve"
                         [] round_result' = "continue" -> AfterRound(street)
                         [] OTHER -> "betting"
              /\ current_pos' = IF round_result' = "none"
                                THEN (pos + 1) % num_players
                                ELSE pos
    /\ UNCHANGED <<config, event_callback, deck, community_cards, button_pos,
                   street, start_pos, results, hands_played, hand_chips, hand_stacks>>
    /\ UNCHANGED deckVars
    /\ UNCHANGED evalVars

\* PokerGame.deal_flop and the community event of play_hand
DealFlop ==
    /\ pc = "deal_flop"
    /\ LET r == DrawInto(deck, community_cards, IF four_card_flop THEN 4 ELSE 3)
           evs == <<GameEvent("community", -1, QZero, Take(r.cards, 3))>>
       IN  /\ deck' = r.deck
           /\ community_cards' = r.cards
           /\ events' = Emitted(events, evs)
           /\ last_event' = LastEmitted(last_event, evs)
    /\ pc' = "round"
    /\ street' = 1
    /\ UNCHANGED <<config, event_callback, players, pot, current_bet,
                   button_pos, start_pos, current_pos, round_result, results,
                   hands_played, hand_chips, hand_stacks, acted, last_raiser>>
    /\ UNCHANGED deckVars
    /\ UNCHANGED evalVars

\* PokerGame.deal_turn and the community event: cards=[community_cards[3]]
DealTurn ==
    /\ pc = "deal_turn"
    /\ LET r == DrawInto(deck, community_cards, 1)
           evs == <<GameEvent("community", -1, QZero, <<r.cards[4]>>)>>
       IN  /\ deck' = r.deck
           /\ community_cards' = r.cards
           /\ events' = Emitted(events, evs)
           /\ last_event' = LastEmitted(last_event, evs)
    /\ pc' = "round"
    /\ street' = 2
    /\ UNCHANGED <<config, event_callback, players, pot, current_bet,
                   button_pos, start_pos, current_pos, round_result, results,
                   hands_played, hand_chips, hand_stacks, acted, last_raiser>>
    /\ UNCHANGED deckVars
    /\ UNCHANGED evalVars

\* PokerGame.deal_river and the community event: cards=[community_cards[4]]
DealRiver ==
    /\ pc = "deal_river"
    /\ LET r == DrawInto(deck, community_cards, 1)
           evs == <<GameEvent("community", -1, QZero, <<r.cards[5]>>)>>
       IN  /\ deck' = r.deck
           /\ community_cards' = r.cards
           /\ events' = Emitted(events, evs)
           /\ last_event' = LastEmitted(last_event, evs)
    /\ pc' = "round"
    /\ street' = 3
    /\ UNCHANGED <<config, event_callback, players, pot, current_bet,
                   button_pos, start_pos, current_pos, round_result, results,
                   hands_played, hand_chips, hand_stacks, acted, last_raiser>>
    /\ UNCHANGED deckVars
    /\ UNCHANGED evalVars

\* Python's order on lists of numbers: the first difference decides, a proper
\* prefix is smaller
ListLt(a, b) ==
    \E k \in 1..Len(b) :
        /\ \A j \in 1..(k - 1) : j <= Len(a) /\ a[j] = b[j]
        /\ k - 1 <= Len(a)
        /\ IF k <= Len(a) THEN a[k] < b[k] ELSE TRUE

\* the sort key (x[1].rank.value, x[1].high_cards), compared as tuples
KeyLt(x, y) ==
    \/ x.rank < y.rank
    \/ x.rank = y.rank /\ ListLt(x.high_cards, y.high_cards)

HandBefore(x, y) == KeyLt(y.hand, x.hand)

\* player_hands of _resolve_winners: the active players in seat order, each
\* with its evaluated hand
player_hands(pl, community) ==
    LET active == AscSeq({i \in Seats : pl[i].is_active})
    IN  Tuple([k \in 1..Len(active) |->
                  [player |-> active[k],
                   hand |-> evaluate_hand(pl[active[k]].hole_cards, community)]])

\* the front of the sorted hands srt whose hands are Same as the first one,
\* as the sequence of their players
LeadingPlayers(srt, Same(_, _)) ==
    LET m == CHOOSE k \in 1..Len(srt) :
                 /\ \A j \in 1..k : Same(srt[j].hand, srt[1].hand)
                 /\ (k = Len(srt) \/ ~Same(srt[k + 1].hand, srt[1].hand))
    IN  Tuple([k \in 1..m |-> srt[k].player])

SameCategory(x, y) == x.rank = y.rank

SameHand(x, y) == x.rank = y.rank /\ x.high_cards = y.high_cards

\* a showdown that takes every player of the best category as a winner,
\* whatever the high_cards
showdown_winners_by_category(ph) ==
    CHOOSE w \in {LeadingPlayers(srt, SameCategory) :
                    srt \in {StableSort(ph, HandBefore)}} : TRUE

\* the winners of a showdown: sort by strength, highest first, and take the
\* players from the front whose rank and high_cards equal the first one's
showdown_winners(ph) ==
    CHOOSE w \in {LeadingPlayers(srt, SameHand) :
                    srt \in {StableSort(ph, HandBefore)}} : TRUE

\* the winners of _resolve_winners: nobody without an active player, the
\* one active player, or the winners of the showdown
winners_of(pl, community) ==
    LET among(active) ==
            IF Len(active) = 0 THEN <<>>
            ELSE IF Len(active) = 1 THEN active
            ELSE CHOOSE w \in {showdown_winners(ph) :
                                 ph \in {player_hands(pl, community)}} : TRUE
    IN  CHOOSE w \in {among(active) :
                        active \in {AscSeq({i \in Seats : pl[i].is_active})}} :
            TRUE

\* the stacks and the result list once each of the winners got winnings
credited(pl, winners, winnings) ==
    [players |-> [i \in Seats |->
                    IF i \in Range(winners)
                    THEN [pl[i] EXCEPT !.stack = QAdd(@, winnings)]
                    ELSE pl[i]],
     results |-> Tuple([k \in 1..Len(winners) |->
                          [player |-> winners[k], winnings |-> winnings]])]

\* a resolution that credits the whole pot to each of the tied winners
resolve_winners_whole_pot(pl, the_pot, community) ==
    CHOOSE res \in {credited(pl, winners, the_pot) :
                      winners \in {winners_of(pl, community)}} : TRUE

\* PokerGame._resolve_winners: the winners, their winnings and the stacks
resolve_winners(pl, the_pot, community) ==
    CHOOSE res \in
        {credited(pl, winners,
                  IF Len(winners) <= 1 THEN the_pot
                  ELSE QDivInt(the_pot, Len(winners))) :
           winners \in {winners_of(pl, community)}} : TRUE

\* the end of play_hand: _resolve_winners with its win events, then the
\* hand_complete event, then the return
ResolveWinners ==
    /\ pc = "resolve"
    /\ \E r \in {resolve_winners(players, pot, community_cards)} :
       \E evs \in {Tuple([k \in 1..Len(r.results) |->
                            GameEvent("win", r.results[k].player,
                                      r.results[k].winnings, <<>>)])
                   \o <<GameEvent("hand_complete", -1, QZero, <<>>)>>} :
           /\ players' = r.players
           /\ results' = r.results
           /\ events' = Emitted(events, evs)
           /\ last_event' = LastEmitted(last_event, evs)
    /\ pc' = "idle"
    /\ hands_played' = hands_played + 1
    /\ UNCHANGED <<config, event_callback, deck, community_cards, pot,
                   current_bet, button_pos, street, start_pos, current_pos,
                   round_result, hand_chips, hand_stacks, acted,
                   last_raiser>>
    /\ UNCHANGED deckVars
    /\ UNCHANGED evalVars

Next ==
    \/ SetEventCallback
    \/ ResetHand
    \/ PostBlinds
    \/ DealHoleCards
    \/ BettingRoundStart
    \/ BettingTurn
    \/ DealFlop
    \/ DealTurn
    \/ DealRiver
    \/ ResolveWinners

Spec == Init /\ [][Next]_vars

\* play_hand runs on one thread that never waits: inside _betting_round the
\* next pass of the loop is always taken
FairSpec == Spec /\ WF_vars(BettingTurn)

-----------------------------------------------------------------------------
(* The seats of a session: games of 2..MaxSeats players, hand after hand.
   Of a hand only what assigns button_pos and the players' position is kept:
   reset_hand, the first statement of play_hand, and the loop of
   run_simulation around play_hand.  Nothing after reset_hand in play_hand
   assigns either of them. *)

MaxSeats == 9           \* the dashboard builds games of 2..9 players
MaxSessionHands == 9    \* hands of a session

\* PokerGame.__init__, for every table size the dashboard offers
TableInit ==
    /\ dk = create_deck(DeckRanks, DeckSuits)
    /\ dkOp = [name |-> "init", rank |-> -1, suit |-> -1]
    /\ dkRet = NoCard
    /\ EvalIdle
    /\ num_players \in 2..MaxSeats
    /\ \E st \in StakeChoices :
          /\ initial_stack = st.initial_stack
          /\ small_blind = st.small_blind
          /\ big_blind = st.big_blind
          /\ players = [i \in 0..(num_players - 1) |-> NewPlayer(st.initial_stack)]
    /\ four_card_flop = FALSE
    /\ event_callback = FALSE
    /\ deck = create_deck(Rank, Suit)
    /\ community_cards = <<>>
    /\ pot = QZero
    /\ current_bet = QZero
    /\ button_pos = 0
    /\ pc = "idle"
    /\ street = 0
    /\ start_pos = 0
    /\ current_pos = 0
    /\ round_result = "none"
    /\ results = <<>>
    /\ events = <<>>
    /\ last_event = "none"
    /\ hands_played = 0
    /\ hand_chips = QZero
    /\ hand_stacks = <<>>
    /\ acted = {}
    /\ last_raiser = -1

\* the two loops of reset_hand over the players, the button being on seat
\* button: every seat is relabelled, every player reset, a bust stack refilled
reset_players(button) ==
    [i \in Seats |->
        [stack |-> IF QLe(players[i].stack, QZero) THEN initial_stack
                   ELSE players[i].stack,
         hole_cards |-> <<>>,
         current_bet |-> QZero,
         is_active |-> TRUE,
         position |-> position_label((i - button) % num_players),
         folded |-> FALSE]]

\* the labelling loop of run_simulation, the button being on seat button:
\* position_names has six entries, so the loop stops with an IndexError at
\* the first seat whose offset from the button is six or more
simulation_labelled(button) ==
    [i \in Seats |->
        IF \A j \in 0..i : (j - button) % num_players < 6
        THEN [players[i] EXCEPT !.position =
                 <<"BTN", "SB", "BB", "UTG", "MP", "CO">>
                     [((i - button) % num_players) + 1]]
        ELSE players[i]]

\* one play_hand call made directly on the game
TbPlayHand ==
    /\ pc \in {"idle", "simulated"}
    /\ hands_played < MaxSessionHands
    /\ LET button == (button_pos + 1) % num_players
       IN  /\ button_pos' = button
           /\ players' = reset_players(button)
    /\ deck' = create_deck(Rank, Suit)
    /\ community_cards' = <<>>
    /\ pot' = QZero
    /\ current_bet' = QZero
    /\ hands_played' = hands_played + 1
    /\ pc' = "idle"
    /\ UNCHANGED <<config, event_callback, street, start_pos, current_pos,
                   round_result, results, events, last_event, hand_chips,
                   hand_stacks, acted, last_raiser>>
    /\ UNCHANGED deckVars
    /\ UNCHANGED evalVars

\* one pass of the loop of run_simulation on a table of at most six players:
\* the button is rotated, the seats are labelled, then play_hand is called
\* and its reset_hand rotates the button and labels the seats again
TbRunSimulationHand ==
    /\ pc \in {"idle", "simulated"}
    /\ hands_played < MaxSessionHands
    /\ num_players <= 6
    /\ LET rotated == (button_pos + 1) % num_players
           button == (rotated + 1) % num_players
       IN  /\ button_pos' = button
           /\ players' = reset_players(button)
    /\ deck' = create_deck(Rank, Suit)
    /\ community_cards' = <<>>
    /\ pot' = QZero
    /\ current_bet' = QZero
    /\ hands_played' = hands_played + 1
    /\ pc' = "simulated"
    /\ UNCHANGED <<config, event_callback, street, start_pos, current_pos,
                   round_result, results, events, last_event, hand_chips,
                   hand_stacks, acted, last_raiser>>
    /\ UNCHANGED deckVars
    /\ UNCHANGED evalVars

\* one pass of the loop of run_simulation on a table of more than six
\* players: the button is rotated and the labelling loop raises IndexError,
\* which ends run_simulation before play_hand is called
TbRunSimulationIndexError ==
    /\ pc \in {"idle", "simulated"}
    /\ hands_played < MaxSessionHands
    /\ num_players > 6
    /\ LET rotated == (button_pos + 1) % num_players
       IN  /\ button_pos' = rotated
           /\ players' = simulation_labelled(rotated)
    /\ pc' = "IndexError"
    /\ UNCHANGED <<config, event_callback, deck, community_cards, pot,
                   current_bet, street, start_pos, current_pos, round_result,
                   results, events, last_event, hands_played, hand_chips,
                   hand_stacks, acted, last_raiser>>
    /\ UNCHANGED deckVars
    /\ UNCHANGED evalVars

TableNext == TbPlayHand \/ TbRunSimulationHand \/ TbRunSimulationIndexError

TableSpec == TableInit /\ [][TableNext]_vars

-----------------------------------------------------------------------------
(* Properties of the deck (checked under DeckSpec) *)

NoDuplicates(s) == \A i, j \in 1..Len(s) : i # j => s[i] # s[j]

\* C1: after construction and after any sequence of shuffle, draw and
\* deal_specific_card calls the remaining cards and the discarded cards
\* together number the full deck (52 for the real deck, DeckSize here), every
\* card of the deck is in exactly one of the two, and no card occurs twice in
\* the remaining sequence.
C1_DeckPartition ==
    /\ remaining(dk) + Cardinality(dk.discarded) = DeckSize
    /\ \A c \in DeckAll : (c \in Range(dk.cards)) # (c \in dk.discarded)
    /\ Range(dk.cards) \cup dk.discarded = DeckAll
    /\ NoDuplicates(dk.cards)

\* a deal_specific_card that found its card, with cards drawn before and
\* cards still in the deck
C1_Witness ==
    /\ dkOp.name = "deal_specific_card"
    /\ dkRet # NoCard
    /\ Cardinality(dk.discarded) >= 2
    /\ remaining(dk) >= 1

\* C9: draw on a non-empty deck removes and returns the last card of the
\* remaining sequence and adds it to discarded; on an empty deck it returns
\* the no-card value and leaves the sequence and the discarded set unchanged.
C9_DrawContract ==
    [][dkOp'.name = "draw" =>
          IF Len(dk.cards) > 0
          THEN /\ dkRet' = dk.cards[Len(dk.cards)]
               /\ dk'.cards = SubSeq(dk.cards, 1, Len(dk.cards) - 1)
               /\ dk'.discarded = dk.discarded \cup {dk.cards[Len(dk.cards)]}
          ELSE /\ dkRet' = NoCard
               /\ dk'.cards = dk.cards
               /\ dk'.discarded = dk.discarded]_vars

\* a draw from the exhausted deck, after every card was drawn or dealt
C9_Witness ==
    /\ dkOp.name = "draw"
    /\ dkRet = NoCard
    /\ dk.cards = <<>>
    /\ dk.discarded = DeckAll

\* C10: deal_specific_card(rank, suit) for a card no longer in the remaining
\* sequence returns not-found and leaves the sequence and the discarded set
\* unchanged; for a card still in the deck it removes exactly that card, adds
\* it to discarded and returns it.
C10_DealSpecificContract ==
    [][dkOp'.name = "deal_specific_card" =>
          LET c == Card(dkOp'.rank, dkOp'.suit)
          IN  IF \E i \in 1..Len(dk.cards) : dk.cards[i] = c
              THEN /\ dkRet' = c
                   /\ dk'.cards = SelectSeq(dk.cards, LAMBDA x : x # c)
                   /\ Len(dk'.cards) = Len(dk.cards) - 1
                   /\ dk'.discarded = dk.discarded \cup {c}
              ELSE /\ dkRet' = NoCard
                   /\ dk'.cards = dk.cards
                   /\ dk'.discarded = dk.discarded]_vars

\* a request for a card that was drawn before: not found
C10_Witness ==
    /\ dkOp.name = "deal_specific_card"
    /\ dkRet = NoCard
    /\ Card(dkOp.rank, dkOp.suit) \in dk.discarded
    /\ remaining(dk) >= 1

-----------------------------------------------------------------------------
(* Properties of a hand (checked under Spec and FairSpec) *)

\* the positions of play_hand between the end of reset_hand and its return
InHand ==
    {"blinds", "deal", "round", "betting", "deal_flop", "deal_turn",
     "deal_river", "resolve"}

\* C2: within one play_hand call, from the end of reset_hand until just
\* before the winners are credited, the sum of all stacks plus the pot is
\* constant under every blind post, fold, call and raise; after
\* _resolve_winners the sum of all stacks equals that constant.
C2_ChipConservation ==
    /\ pc \in InHand => QAdd(TotalStacks(players), pot) = hand_chips
    /\ (pc = "idle" /\ hands_played > 0) => TotalStacks(players) = hand_chips

\* a hand played to its end in which betting added chips to the blinds
C2_Witness ==
    /\ pc = "idle"
    /\ hands_played > 0
    /\ QLt(QAdd(small_blind, big_blind), pot)
    /\ \E i \in Seats : ~players[i].is_active
    /\ Len(results) >= 1

\* C3: in every resolved hand the amounts credited to the winners sum
\* exactly to the pot: a sole remaining active player is credited the entire
\* pot, and k tied winners are each credited pot/k.
C3_WinnersShareThePot ==
    [][pc = "resolve" =>
          LET k == Len(results')
              W == {results'[j].player : j \in 1..k}
              credit(i) == QSub(players'[i].stack, players[i].stack)
          IN  /\ k >= 1
              /\ Cardinality(W) = k
              /\ \A j \in 1..k : results'[j].winnings = QDivInt(pot, k)
              /\ QSum(Tuple([j \in 1..k |-> results'[j].winnings])) = pot
              /\ \A i \in Seats :
                    credit(i) = IF i \in W THEN QDivInt(pot, k) ELSE QZero
              /\ QSum(Tuple([i \in 1..num_players |-> credit(i - 1)])) = pot
              /\ Cardinality(ActiveSeats) = 1 => W = ActiveSeats]_vars

\* a showdown that ended in a tie: the pot was split
C3_Witness ==
    /\ pc = "idle"
    /\ hands_played > 0
    /\ Len(results) >= 2
    /\ \A j \in 1..Len(results) : results[j].winnings = QDivInt(pot, Len(results))

\* C4: as soon as an action of _betting_round leaves fewer than two active
\* players the round returns early-end with no further player acting, and
\* play_hand then deals no more community cards and goes straight to
\* resolution, on whichever street this happens.
C4_EarlyEnd ==
    [][/\ (pc = "betting"
           /\ Cardinality({i \in Seats : players'[i].is_active}) < 2)
          => /\ round_result' = "early_end"
             /\ pc' = "resolve"
             /\ community_cards' = community_cards
       /\ (round_result = "early_end" /\ pc # "idle")
          => /\ pc = "resolve"
             /\ pc' = "idle"
             /\ community_cards' = community_cards
             /\ deck' = deck
             /\ Len(results') = 1]_vars

\* a hand that ended early on the turn: one player left, no river dealt
C4_Witness ==
    /\ pc = "idle"
    /\ hands_played > 0
    /\ round_result = "early_end"
    /\ street = 2
    /\ Cardinality(ActiveSeats) = 1
    /\ Len(community_cards) = IF four_card_flop THEN 5 ELSE 4

\* C5: every betting round terminates: once _betting_round has entered its
\* loop it eventually returns, early-end or normal end.
C5_BettingRoundTerminates == (pc = "betting") ~> (pc # "betting")

\* a betting round on the river that has filled the event log of its hand
C5_Witness ==
    /\ pc = "betting"
    /\ street = 3
    /\ event_callback
    /\ Len(events) = MaxEvents
    /\ last_event \in {"call", "raise"}

\* C6: play_hand moves through PRE_FLOP, FLOP, TURN, RIVER, SHOWDOWN in that
\* order without skipping or repeating a street: with the 3-card flop the
\* betting rounds run with exactly 0, 3, 4 and 5 community cards, and a
\* showdown between two or more players happens only after the river betting
\* round has ended normally.
C6_StreetOrder ==
    [][/\ (~four_card_flop /\ pc' \in {"round", "betting"})
          => Len(community_cards') = <<0, 3, 4, 5>>[street' + 1]
       /\ street' # street
          => \/ (street' = street + 1 /\ round_result = "continue"
                 /\ pc' = "round")
             \/ (pc = "idle" /\ street' = 0)
       /\ (pc' = "round" /\ pc # "deal") => street' = street + 1
       /\ (pc = "resolve" /\ Cardinality(ActiveSeats) >= 2)
          => (street = 3 /\ round_result = "continue")]_vars

\* a hand with the 3-card flop that went through all four rounds to a
\* showdown between at least two players
C6_Witness ==
    /\ pc = "idle"
    /\ hands_played > 0
    /\ ~four_card_flop
    /\ street = 3
    /\ round_result = "continue"
    /\ Len(community_cards) = 5
    /\ Cardinality(ActiveSeats) >= 2

\* the place of an event type in the production order of a hand
EventPhase(type) ==
    CASE type = "stack_reset" -> 0
      [] type = "small_blind" -> 1
      [] type = "big_blind" -> 2
      [] type = "deal" -> 3
      [] type \in {"fold", "call", "raise", "community"} -> 4
      [] type = "win" -> 5
      [] type = "hand_complete" -> 6

EventCount(type) ==
    Cardinality({i \in 1..Len(events) : events[i].type = type})

\* the log holds every event of the hand so far
LogComplete == event_callback /\ Len(events) < MaxEvents

\* C7: with a callback registered the events of one hand are delivered in
\* production order: small_blind, then big_blind, then one deal event per
\* player, then fold/call/raise events with each community event preceding
\* the betting actions of its street, then the win event(s), and finally
\* exactly one hand_complete event, which is the last event of the hand.
\* (The stack_reset events of reset_hand come before the small blind.)
C7_EventOrder ==
    /\ LogComplete =>
          /\ \A i \in 1..(Len(events) - 1) :
                EventPhase(events[i].type) <= EventPhase(events[i + 1].type)
          /\ EventCount("small_blind") <= 1
          /\ EventCount("big_blind") <= 1
          /\ EventCount("deal") \in {0, num_players}
          /\ EventCount("hand_complete") <= 1
          /\ pc \in (InHand \ {"blinds"}) =>
                /\ EventCount("small_blind") = 1
                /\ EventCount("big_blind") = 1
          /\ pc \in (InHand \ {"blinds", "deal"}) =>
                EventCount("deal") = num_players
          /\ pc \in InHand =>
                /\ EventCount("community") = street
                /\ EventCount("win") = 0
                /\ EventCount("hand_complete") = 0
          /\ (pc = "idle" /\ Len(events) > 0) =>
                /\ events[Len(events)].type = "hand_complete"
                /\ EventCount("hand_complete") = 1
                /\ EventCount("win") = Len(results)
                /\ EventCount("win") >= 1
                /\ EventCount("community") = street
                /\ EventCount("deal") = num_players
    /\ (event_callback /\ pc = "idle" /\ last_event # "none")
          => last_event = "hand_complete"
    /\ (event_callback /\ pc \in {"betting", "deal_flop", "deal_turn",
                                  "deal_river", "resolve"})
          => last_event \in {"deal", "fold", "call", "raise", "community"}

\* a hand logged from the blinds to hand_complete that went through all
\* streets, with a raise and a fold on the way
C7_Witness ==
    /\ pc = "idle"
    /\ LogComplete
    /\ EventCount("community") = 3
    /\ EventCount("raise") >= 1
    /\ EventCount("fold") >= 1
    /\ EventCount("hand_complete") = 1

\* C8: at a showdown with two or more active players the winners are exactly
\* the active players whose (category, tie_break) is maximal among the active
\* players under the order category first, then lexicographic tie_break: no
\* weaker and no folded player wins, no player equal to the best is left out.
C8_ShowdownWinners ==
    [][(pc = "resolve" /\ Cardinality(ActiveSeats) >= 2) =>
          LET hand(i) == evaluate_hand(players[i].hole_cards, community_cards)
              best == {i \in ActiveSeats :
                         \A j \in ActiveSeats : ~KeyLt(hand(i), hand(j))}
          IN  /\ {results'[k].player : k \in 1..Len(results')} = best
              /\ Len(results') = Cardinality(best)]_vars

\* a showdown that an active player lost
C8_Witness ==
    /\ pc = "idle"
    /\ hands_played > 0
    /\ round_result = "continue"
    /\ Cardinality(ActiveSeats) >= 2
    /\ Len(results) < Cardinality(ActiveSeats)

-----------------------------------------------------------------------------
(* Properties of the decision policy and of its use by _betting_round *)

PositionLabels == {"BTN", "SB", "BB", "UTG", "MP", "CO"}

\* the seat that acts in the next pass of the betting loop and what it owes
ActingSeat == NextActive(players, current_pos)

ToCall == QSub(current_bet, players[ActingSeat].current_bet)

\* C11: whenever the amount to call exceeds the player's stack,
\* make_decision returns fold with amount 0 whatever the cards and the
\* position, and applying it in the betting round moves no chips (the
\* player's stack and current_bet and the pot are unchanged) and only marks
\* the player inactive; consequently no call ever debits more than the
\* caller's stack.
C11_ShortStackFolds ==
    [][pc = "betting" =>
          /\ QLt(players[ActingSeat].stack, ToCall) =>
                /\ \A h \in Range(HoleChoices), label \in PositionLabels :
                      make_decision([players[ActingSeat] EXCEPT
                                         !.hole_cards = h, !.position = label],
                                    ToCall, pot, community_cards)
                        = Decision("fold", QZero)
                /\ players' = [players EXCEPT ![ActingSeat].is_active = FALSE]
                /\ pot' = pot
                /\ current_bet' = current_bet
          /\ make_decision(players[ActingSeat], ToCall, pot,
                           community_cards).action = "call" =>
                /\ QLe(QSub(players[ActingSeat].stack,
                            players'[ActingSeat].stack),
                       players[ActingSeat].stack)
                /\ QSub(players[ActingSeat].stack,
                        players'[ActingSeat].stack) = ToCall]_vars

\* a player holding a pocket pair has just folded because the amount to
\* call was larger than the stack; a fold changes neither of the two
C11_Witness ==
    /\ LogComplete
    /\ pc \in {"betting", "resolve"}
    /\ Last(events).type = "fold"
    /\ LET p == players[Last(events).player]
       IN  /\ ~p.is_active
           /\ QLt(p.stack, QSub(current_bet, p.current_bet))
           /\ QLt(QZero, p.stack)
           /\ p.hole_cards[1].rank = p.hole_cards[2].rank

\* C12: every raise returned by the decision policy, pre-flop or post-flop,
\* has an amount (the new total bet level, which the betting round makes the
\* table's and the player's current bet) that does not exceed the deciding
\* player's current stack.
C12_RaiseWithinStack ==
    [][pc = "betting" =>
          \E p \in {players[ActingSeat]} :
             /\ \A h \in Range(HoleChoices), late \in BOOLEAN :
                   \E d \in {preflop_strategy([p EXCEPT !.hole_cards = h],
                                              ToCall, pot, late)} :
                      d.action = "raise" => QLe(d.amount, p.stack)
             /\ \A category \in HIGH_CARD..ROYAL_FLUSH, late \in BOOLEAN :
                   \E d \in {postflop_strategy(p, HandStrength(category, <<>>),
                                               ToCall, pot, late)} :
                      d.action = "raise" => QLe(d.amount, p.stack)
             /\ \E d \in {make_decision(p, ToCall, pot, community_cards)} :
                   d.action = "raise" =>
                      /\ QLe(d.amount, p.stack)
                      /\ current_bet' = d.amount
                      /\ players'[ActingSeat].current_bet = d.amount]_vars

\* the stack of the player of the last logged action before that action, a
\* raise debiting the logged amount
StackBeforeLast ==
    QAdd(players[Last(events).player].stack, Last(events).amount)

\* a raise after the flop that the stack capped: the pot was larger than the
\* stack and the new bet level is the whole stack
C12_Witness ==
    /\ LogComplete
    /\ pc \in {"betting", "deal_turn", "deal_river", "resolve"}
    /\ street >= 1
    /\ Last(events).type = "raise"
    /\ current_bet = StackBeforeLast
    /\ QLt(StackBeforeLast, QSub(pot, Last(events).amount))

\* a raise before the flop
C12_WitnessPreflop ==
    /\ LogComplete
    /\ pc \in {"betting", "deal_flop", "resolve"}
    /\ street = 0
    /\ Last(events).type = "raise"
    /\ QLe(current_bet, StackBeforeLast)

-----------------------------------------------------------------------------
(* Properties of the hand evaluator (checked under EvalSpec) *)

\* the cards the stand-alone Player's hand is evaluated from
EvalCards == evHole \o evCommunity

EvalRanks == {EvalCards[i].rank : i \in 1..Len(EvalCards)}

EvalSuits == {EvalCards[i].suit : i \in 1..Len(EvalCards)}

\* evaluate_hand has returned for the cards now held and shown
Evaluated == evStrength # NoStrength

\* 2d 6c with 3c 4s 5h: the Six-high straight of mixed suits
SixHighStraight ==
    evaluate_hand(<<Card(0, 1), Card(4, 2)>>,
                  <<Card(1, 2), Card(2, 3), Card(3, 0)>>)

\* C13: an Ace-low straight (A,2,3,4,5 of mixed suits) is evaluated as
\* STRAIGHT with the ordinal of Five as its tie-break, and therefore compares
\* strictly below a Six-high straight (2,3,4,5,6 of mixed suits) under the
\* (category, tie_break) order.
C13_WheelBelowSixHigh ==
    (/\ Evaluated
     /\ Len(EvalCards) = 5
     /\ EvalRanks = {ACE, TWO, THREE, FOUR, FIVE}
     /\ Cardinality(EvalSuits) > 1)
    => /\ evStrength = HandStrength(STRAIGHT, <<FIVE>>)
       /\ KeyLt(evStrength, SixHighStraight)

\* an Ace-low straight of mixed suits has been evaluated, and the hand it
\* is compared with is a straight too
C13_Witness ==
    /\ Evaluated
    /\ Len(EvalCards) = 5
    /\ EvalRanks = {ACE, TWO, THREE, FOUR, FIVE}
    /\ Cardinality(EvalSuits) > 1
    /\ evStrength.rank = STRAIGHT
    /\ SixHighStraight.rank = STRAIGHT

\* what a five-card hand is by the rules of poker: 4 a straight flush, 3 a
\* flush, 2 a straight, 1 three of a kind, 0 anything else
Class5(cards) ==
    LET ranks == {cards[i].rank : i \in 1..Len(cards)}
        suits == {cards[i].suit : i \in 1..Len(cards)}
        low == CHOOSE r \in ranks : \A q \in ranks : r <= q
        high == CHOOSE r \in ranks : \A q \in ranks : r >= q
        straight == /\ Cardinality(ranks) = 5
                    /\ (high - low = 4 \/ ranks = {ACE, TWO, THREE, FOUR, FIVE})
        flush == Cardinality(suits) = 1
        trips == /\ Cardinality(ranks) = 3
                 /\ \E r \in ranks : CounterCount(cards, r) = 3
    IN  IF straight /\ flush THEN 4
        ELSE IF flush THEN 3
        ELSE IF straight THEN 2
        ELSE IF trips THEN 1
        ELSE 0

\* fixed five-card hands, two hole cards and a flop
KingHighStraightFlush ==
    <<Card(7, 3), Card(8, 3), Card(9, 3), Card(10, 3), Card(11, 3)>>

AcesWithKingQueen ==
    <<Card(12, 0), Card(12, 1), Card(12, 2), Card(11, 3), Card(10, 3)>>

FixedHands ==
    { KingHighStraightFlush,                                           \* 9s 10s Js Qs Ks
      <<Card(12, 0), Card(3, 0), Card(7, 0), Card(9, 0), Card(11, 0)>>, \* Ah 5h 9h Jh Kh
      <<Card(0, 0), Card(5, 0), Card(1, 0), Card(2, 0), Card(3, 0)>>,   \* 2h 7h 3h 4h 5h
      <<Card(12, 1), Card(11, 2), Card(10, 3), Card(9, 3), Card(8, 3)>>,\* Ad Kc Qs Js 10s
      <<Card(12, 1), Card(0, 2), Card(1, 2), Card(2, 3), Card(3, 0)>>,  \* Ad 2c 3c 4s 5h
      AcesWithKingQueen,                                               \* Ah Ad Ac Ks Qs
      <<Card(0, 1), Card(0, 2), Card(0, 3), Card(1, 1), Card(2, 0)>> }  \* 2d 2c 2s 3d 4h

Evaluation5(cards) == evaluate_hand(Take(cards, 2), SubSeq(cards, 3, 5))

\* C14: for fixed five-card hands evaluated post-flop, a straight flush ranks
\* above a flush, a flush above a straight, and a straight above three of a
\* kind under the (category, tie_break) order; in particular 9s 10s Js Qs Ks
\* beats Ah Ad Ac Ks Qs.
C14_CategoryOrder ==
    (Evaluated /\ Len(EvalCards) = 5 /\ Class5(EvalCards) >= 1) =>
        /\ \A h \in FixedHands :
              /\ (Class5(h) >= 1 /\ Class5(h) < Class5(EvalCards))
                    => KeyLt(Evaluation5(h), evStrength)
              /\ Class5(h) > Class5(EvalCards)
                    => KeyLt(evStrength, Evaluation5(h))
        /\ EvalCards = KingHighStraightFlush
              => KeyLt(Evaluation5(AcesWithKingQueen), evStrength)

\* 9s 10s Js Qs Ks has been evaluated
C14_Witness ==
    /\ Evaluated
    /\ EvalCards = KingHighStraightFlush
    /\ Class5(EvalCards) = 4
    /\ Class5(AcesWithKingQueen) = 1

\* a flush, a straight and three of a kind have been evaluated
C14_WitnessFlush == Evaluated /\ Len(EvalCards) = 5 /\ Class5(EvalCards) = 3

C14_WitnessStraight == Evaluated /\ Len(EvalCards) = 5 /\ Class5(EvalCards) = 2

C14_WitnessTrips == Evaluated /\ Len(EvalCards) = 5 /\ Class5(EvalCards) = 1

\* the cards hold five cards of consecutive ranks (or A,2,3,4,5) of one suit
HoldsStraightFlush(cards) ==
    \E su \in Suit, low \in (TWO - 1)..TEN :
        \A k \in 0..4 :
            \E i \in 1..Len(cards) :
                /\ cards[i].suit = su
                /\ cards[i].rank = (IF low + k < TWO THEN ACE ELSE low + k)

\* the cards hold Ten, Jack, Queen, King and Ace of one suit
HoldsRoyal(cards) ==
    \E su \in Suit :
        \A r \in {TEN, JACK, QUEEN, KING, ACE} :
            \E i \in 1..Len(cards) : cards[i].suit = su /\ cards[i].rank = r

\* C15: any post-flop card set containing Ten, Jack, Queen, King and Ace of
\* one suit is evaluated as ROYAL_FLUSH (a straight flush whose top card is
\* Ace); every other straight flush is evaluated as STRAIGHT_FLUSH.
C15_RoyalFlush ==
    (Evaluated /\ Len(evCommunity) >= 3) =>
        /\ HoldsRoyal(EvalCards) => evStrength.rank = ROYAL_FLUSH
        /\ (HoldsStraightFlush(EvalCards) /\ ~HoldsRoyal(EvalCards))
              => evStrength.rank = STRAIGHT_FLUSH

\* As Ks with Qs Js 10s has been evaluated
C15_Witness ==
    /\ Evaluated
    /\ Len(EvalCards) = 5
    /\ HoldsRoyal(EvalCards)

\* the straight flushes below the royal flush are evaluated as STRAIGHT_FLUSH
C15_OtherStraightFlushes ==
    (Evaluated /\ Len(evCommunity) >= 3
       /\ HoldsStraightFlush(EvalCards) /\ ~HoldsRoyal(EvalCards))
    => evStrength.rank = STRAIGHT_FLUSH

\* the top ranks of the runs of five consecutive ranks among the cards, the
\* run A,2,3,4,5 having the top Five
RunTops(cards) ==
    {t \in FIVE..ACE :
        \A k \in 0..4 :
            \E i \in 1..Len(cards) :
                cards[i].rank = (IF t - k < TWO THEN ACE ELSE t - k)}

\* five cards of one suit among the cards
HoldsFlush(cards) ==
    \E su \in Suit : Cardinality({i \in 1..Len(cards) : cards[i].suit = su}) >= 5

\* C16: when a 6- or 7-card post-flop set contains more than one run of five
\* consecutive ranks (or the wheel together with a higher run), the run with
\* the highest top card determines the result: the returned STRAIGHT
\* tie-break is the ordinal of that highest top card.
C16_HighestRunWins ==
    (/\ Evaluated
     /\ Len(EvalCards) \in {6, 7}
     /\ Cardinality(RunTops(EvalCards)) >= 2
     /\ ~HoldsFlush(EvalCards))
    => \E top \in RunTops(EvalCards) :
          /\ \A t \in RunTops(EvalCards) : t <= top
          /\ evStrength = HandStrength(STRAIGHT, <<top>>)

\* seven cards with a wheel and higher runs have been evaluated as a
\* straight
C16_Witness ==
    /\ Evaluated
    /\ Len(EvalCards) = 7
    /\ {FIVE, FIVE + 1} \subseteq RunTops(EvalCards)
    /\ ~HoldsFlush(EvalCards)
    /\ evStrength.rank = STRAIGHT

\* six cards with two runs and without the wheel, evaluated as a straight
C16_WitnessNoWheel ==
    /\ Evaluated
    /\ Len(EvalCards) = 6
    /\ Cardinality(RunTops(EvalCards)) = 2
    /\ FIVE \notin RunTops(EvalCards)
    /\ evStrength.rank = STRAIGHT

\* C17: with no community cards and two hole cards, evaluate_hand returns
\* PAIR with tie-break [pair rank] for a pocket pair of rank Ten or higher,
\* HIGH_CARD with tie-break [pair rank] for a pocket pair below Ten,
\* HIGH_CARD with tie-break [highest rank] for an unpaired hand whose highest
\* card is Jack or higher, and HIGH_CARD with tie-break [0] for every other
\* hand.
C17_PreflopStrength ==
    (Evaluated /\ Len(evCommunity) = 0 /\ Len(evHole) = 2) =>
        \E a \in {evHole[1].rank} : \E b \in {evHole[2].rank} :
            /\ (a = b /\ a >= TEN) => evStrength = HandStrength(PAIR, <<a>>)
            /\ (a = b /\ a < TEN) => evStrength = HandStrength(HIGH_CARD, <<a>>)
            /\ (a # b /\ (a >= JACK \/ b >= JACK))
                  => /\ evStrength.rank = HIGH_CARD
                     /\ Len(evStrength.high_cards) = 1
                     /\ evStrength.high_cards[1] \in {a, b}
                     /\ evStrength.high_cards[1] >= a
                     /\ evStrength.high_cards[1] >= b
            /\ (a # b /\ a < JACK /\ b < JACK)
                  => evStrength = HandStrength(HIGH_CARD, <<0>>)

\* pocket tens have been evaluated before the flop
C17_Witness ==
    /\ Evaluated
    /\ Len(evCommunity) = 0
    /\ evHole[1].rank = TEN
    /\ evHole[2].rank = TEN

\* pocket nines, a jack with a lower card, and ten-nine have been evaluated
\* before the flop
C17_WitnessLowPair ==
    Evaluated /\ Len(evCommunity) = 0 /\ evHole[1].rank = TEN - 1
              /\ evHole[2].rank = TEN - 1

C17_WitnessHighCard ==
    Evaluated /\ Len(evCommunity) = 0 /\ evHole[1].rank = TWO
              /\ evHole[2].rank = JACK

C17_WitnessWeak ==
    Evaluated /\ Len(evCommunity) = 0 /\ evHole[1].rank = TEN
              /\ evHole[2].rank = TEN - 1

\* the best poker category that five of the cards can make
BestCategory(cards) ==
    LET ranks == {cards[i].rank : i \in 1..Len(cards)}
        n(r) == CounterCount(cards, r)
        paired == {r \in ranks : n(r) >= 2}
    IN  IF HoldsRoyal(cards) THEN ROYAL_FLUSH
        ELSE IF HoldsStraightFlush(cards) THEN STRAIGHT_FLUSH
        ELSE IF \E r \in ranks : n(r) = 4 THEN FOUR_OF_A_KIND
        ELSE IF \E r \in ranks : n(r) = 3 /\ paired # {r} THEN FULL_HOUSE
        ELSE IF HoldsFlush(cards) THEN FLUSH
        ELSE IF RunTops(cards) # {} THEN STRAIGHT
        ELSE IF \E r \in ranks : n(r) = 3 THEN THREE_OF_A_KIND
        ELSE IF Cardinality(paired) >= 2 THEN TWO_PAIR
        ELSE IF Cardinality(paired) = 1 THEN PAIR
        ELSE HIGH_CARD

\* the rank of the k-th highest-ranked of the cards
KthRank(cards, k) ==
    CHOOSE r \in {cards[i].rank : i \in 1..Len(cards)} :
        /\ Cardinality({i \in 1..Len(cards) : cards[i].rank > r}) < k
        /\ Cardinality({i \in 1..Len(cards) : cards[i].rank >= r}) >= k

\* C26: for every post-flop input of 5 to 7 distinct cards whose best poker
\* category is four of a kind, three of a kind, two pair or pair,
\* _evaluate_cards does not return that category: it returns HIGH_CARD with
\* the ordinals of the five highest-ranked cards as tie-break.
C26_PairsDegradeToHighCard ==
    (/\ Evaluated
     /\ Len(EvalCards) \in 5..7
     /\ BestCategory(EvalCards) \in
            {FOUR_OF_A_KIND, THREE_OF_A_KIND, TWO_PAIR, PAIR})
    => /\ evStrength.rank = HIGH_CARD
       /\ evStrength.high_cards =
              Tuple([k \in 1..5 |-> KthRank(EvalCards, k)])

\* seven cards holding four of a kind have been evaluated as HIGH_CARD
C26_Witness ==
    /\ Evaluated
    /\ Len(EvalCards) = 7
    /\ BestCategory(EvalCards) = FOUR_OF_A_KIND
    /\ evStrength.rank = HIGH_CARD
    /\ Len(evStrength.high_cards) = 5

\* three of a kind, two pair and a pair have been evaluated, in five, six
\* and seven cards
C26_WitnessTrips ==
    Evaluated /\ Len(EvalCards) = 5 /\ BestCategory(EvalCards) = THREE_OF_A_KIND

C26_WitnessTwoPair ==
    Evaluated /\ Len(EvalCards) = 6 /\ BestCategory(EvalCards) = TWO_PAIR

C26_WitnessPair ==
    Evaluated /\ Len(EvalCards) = 7 /\ BestCategory(EvalCards) = PAIR

-----------------------------------------------------------------------------
(* Properties of the end of a betting round (checked under Spec) *)

\* the active seats after the step
ActiveAfter == {i \in Seats : players'[i].is_active}

\* all(not p.is_active or p.current_bet == self.current_bet) after the step
AllCalledAfter == \A i \in ActiveAfter : players'[i].current_bet = current_bet'

\* C18: if every active player's current_bet equals the table's current bet
\* and action has passed once around all active players since the last raise
\* (or since the round began), the betting round ends normally; this holds
\* also when the seat at button+3, where the round nominally starts, is
\* inactive because that player folded earlier in the hand.
C18_EndsWhenAllMatched ==
    [][(/\ pc = "betting"
        /\ Cardinality(ActiveAfter) >= 2
        /\ AllCalledAfter
        /\ ActiveAfter \subseteq acted')
       => (round_result' = "continue" /\ pc' # "betting")]_vars

\* a betting round goes on with all bets matched and every active player
\* having acted, the seat where the round started being inactive
C18_Witness ==
    /\ pc = "betting"
    /\ round_result = "none"
    /\ Cardinality(ActiveSeats) >= 2
    /\ \A i \in ActiveSeats : players[i].current_bet = current_bet
    /\ ActiveSeats \subseteq acted
    /\ ~players[start_pos].is_active

\* what the code does instead: once the seat where the round started is
\* inactive, no step of the round makes it end normally
C18_NoNormalEndWithoutStartSeat ==
    [][(pc = "betting" /\ ~players'[start_pos].is_active)
       => round_result' # "continue"]_vars

\* C19: _betting_round reports normal end (True) only in a state where at
\* least two players are active and every active player's current_bet equals
\* the table's current bet.
C19_NormalEndState ==
    [][(pc = "betting" /\ round_result' = "continue")
       => /\ Cardinality(ActiveAfter) >= 2
          /\ AllCalledAfter
          /\ pc' \in {"deal_flop", "deal_turn", "deal_river", "resolve"}]_vars

\* a round of three players has ended normally after one of them folded and
\* the bet was raised above the big blind
C19_Witness ==
    /\ round_result = "continue"
    /\ pc \in {"deal_flop", "deal_turn", "deal_river", "resolve"}
    /\ num_players = 3
    /\ Cardinality(ActiveSeats) = 2
    /\ QLt(big_blind, current_bet)
    /\ \A i \in ActiveSeats : players[i].current_bet = current_bet

\* C20: a raise reopens the round: after any raise action in a betting
\* round, the round does not end normally until every other active player
\* has acted again (called, raised or folded) after that raise, even if that
\* player had already acted on this street.
C20_RaiseReopensRound ==
    [][(pc = "betting" /\ round_result' = "continue" /\ last_raiser' # -1)
       => ActiveAfter \subseteq acted']_vars

\* a round in which a player raised has ended normally with the raiser and
\* at least one other player active
C20_Witness ==
    /\ round_result = "continue"
    /\ pc \in {"deal_flop", "deal_turn", "deal_river", "resolve"}
    /\ last_raiser \in ActiveSeats
    /\ Cardinality(ActiveSeats) >= 2

-----------------------------------------------------------------------------
(* Properties of the turns, the stacks and the bets of a hand (checked under
   Spec) *)

\* C21: in every betting round that ends normally, each player who is active
\* at the end of the round has been given at least one decision turn during
\* that round.  Stated for the rounds that end without a raise, where acted
\* holds exactly the seats that had a turn in the round.
C21_EveryActivePlayerActed ==
    [][(pc = "betting" /\ round_result' = "continue" /\ last_raiser' = -1)
       => ActiveAfter \subseteq acted']_vars

\* a round has ended normally, without a raise, after the turn of the seat
\* where it started, and an active player has had no turn in it
C21_Witness ==
    /\ round_result = "continue"
    /\ pc \in {"deal_flop", "deal_turn", "deal_river", "resolve"}
    /\ last_raiser = -1
    /\ acted = {start_pos}
    /\ \E i \in ActiveSeats : i \notin acted

\* C22: no player's stack is ever negative: for any positive initial stack
\* and blinds and any sequence of hands, every blind post, call and raise
\* leaves the acting player's stack at or above zero.
C22_StacksNonNegative ==
    \A i \in Seats : QLe(QZero, players[i].stack)

\* the big blind has been posted from a positive stack smaller than the blind
C22_Witness ==
    /\ pc = "deal"
    /\ QLt(QZero, initial_stack)
    /\ QLt(QZero, small_blind)
    /\ QLt(QZero, big_blind)
    /\ \E i \in Seats :
          /\ i = (button_pos + 2) % num_players
          /\ players[i].current_bet = big_blind
          /\ QLt(players[i].stack, QZero)

\* what the code does keep: a call or a raise never takes more than the
\* stack of the player who makes it
C22_BettingWithinStack ==
    [][pc = "betting" =>
          \A i \in Seats :
             QLe(QZero, players[i].stack) => QLe(QZero, players'[i].stack)]_vars

\* C23: within a hand the table's current bet and the pot never decrease:
\* every applied raise sets a table current bet at least as large as the
\* previous one and moves a non-negative number of chips from the raiser's
\* stack to the pot, and every call moves a non-negative number of chips.
C23_BetAndPotMonotone ==
    [][(pc \in InHand) =>
          \E pos \in {ActingSeat} :
             /\ QLe(current_bet, current_bet')
             /\ QLe(pot, pot')
             /\ pc = "betting" => QLe(players'[pos].stack, players[pos].stack)]_vars

\* a raise has set the table's current bet below what another active player
\* has already committed
C23_Witness ==
    /\ pc = "betting"
    /\ last_raiser \in ActiveSeats
    /\ players[last_raiser].current_bet = current_bet
    /\ \E i \in ActiveSeats : QLt(current_bet, players[i].current_bet)

\* C24: Player.current_bet and the table's current bet count only the chips
\* committed on the current street: at the start of the flop, turn and river
\* betting rounds the table's current bet and every player's current_bet are
\* zero.
C24_BetsClearedPerStreet ==
    (pc = "round" /\ street >= 1) =>
        /\ current_bet = QZero
        /\ \A i \in Seats : players[i].current_bet = QZero

\* the flop betting round is about to start and the table's current bet and
\* the bets of the active players still hold the big blind of the pre-flop
\* round
C24_Witness ==
    /\ pc = "round"
    /\ street = 1
    /\ Len(community_cards) >= 3
    /\ current_bet = big_blind
    /\ \A i \in ActiveSeats : players[i].current_bet = big_blind

\* what the code does instead: the bets are cleared by reset_hand only, so a
\* post-flop round starts with the table's current bet of the round before
C24_BetsCarriedOver ==
    [][(pc \in {"deal_flop", "deal_turn", "deal_river"})
       => (current_bet' = current_bet
           /\ \A i \in Seats : players'[i].current_bet = players[i].current_bet)]_vars

\* the chips taken from the stack of seat i since the end of reset_hand
Debited(i) == QSub(hand_stacks[i], players[i].stack)

\* C25: at every point of a hand between blind posting and resolution, each
\* player's current_bet does not exceed the chips debited from that player's
\* stack since the hand started, and the pot equals the total of chips
\* debited from all players' stacks (folded players included) since the hand
\* started.
C25_BetsAreDebited ==
    (pc \in InHand \ {"blinds"}) =>
        /\ \A i \in Seats : QLe(players[i].current_bet, Debited(i))
        /\ pot = QSum(Tuple([k \in 1..num_players |-> Debited(k - 1)]))

\* in a betting round a player who posted a blind has folded and another
\* player has put more than the big blind into the pot
C25_Witness ==
    /\ pc = "betting"
    /\ \E i \in Seats :
          /\ ~players[i].is_active
          /\ QLt(QZero, Debited(i))
    /\ \E i \in ActiveSeats :
          /\ QLt(big_blind, Debited(i))
          /\ players[i].current_bet = Debited(i)

-----------------------------------------------------------------------------
(* Properties of the decisions taken in a hand (checked under Spec) *)

\* the cards the acting player's hand is made of
ActingCards == players[ActingSeat].hole_cards \o community_cards

\* the decision _betting_round obtains from the acting player
ActingDecision ==
    make_decision(players[ActingSeat], ToCall, pot, community_cards)

\* C27: post-flop, a player whose hole cards plus community cards make three
\* of a kind or better, who faces no bet (to_call = 0) and has a positive
\* stack, raises to min(pot, stack); facing a bet of at most 30% of the stack
\* that player calls, and otherwise folds.
C27_StrongHandPolicy ==
    (/\ pc = "betting"
     /\ Len(community_cards) >= 3
     /\ QLt(QZero, players[ActingSeat].stack)
     /\ BestCategory(ActingCards) >= THREE_OF_A_KIND)
    => \E p \in {players[ActingSeat]} :
          ActingDecision =
              IF ToCall = QZero
              THEN Decision("raise", QMin(pot, p.stack))
              ELSE IF QLe(ToCall, QMul(p.stack, QNorm(3, 10)))
              THEN Decision("call", ToCall)
              ELSE Decision("fold", QZero)

\* on the flop a player holding three of a kind faces no bet with a positive
\* stack, and the policy checks
C27_Witness ==
    /\ pc = "betting"
    /\ Len(community_cards) = 3
    /\ QLt(QZero, players[ActingSeat].stack)
    /\ BestCategory(ActingCards) = THREE_OF_A_KIND
    /\ ToCall = QZero
    /\ ActingDecision = Decision("call", QZero)

\* what the code does instead: the policy of the claim is followed by the
\* players whose hand evaluate_hand ranks three of a kind or better
C27_StrongEvaluatedPolicy ==
    (/\ pc = "betting"
     /\ Len(community_cards) >= 3
     /\ evaluate_hand(players[ActingSeat].hole_cards, community_cards).rank
           >= THREE_OF_A_KIND)
    => \E p \in {players[ActingSeat]} :
          ActingDecision =
              IF ToCall = QZero
              THEN Decision("raise", QMin(pot, p.stack))
              ELSE IF QLe(ToCall, QMul(p.stack, QNorm(3, 10)))
              THEN Decision("call", ToCall)
              ELSE Decision("fold", QZero)

\* the hole cards hold an Ace, a King or a Queen
HoldsHighCard(hole) ==
    \E i \in 1..Len(hole) : hole[i].rank \in {ACE, KING, QUEEN}

\* C28: pre-flop, for a player with two hole cards and to_call not exceeding
\* the stack: a pocket pair raises to min(0.75*pot, stack) when to_call = 0,
\* calls when 0 < to_call <= 10% of stack, else folds; an unpaired hand with
\* at least one Ace, King or Queen in late position (CO or BTN) raises to
\* min(0.5*pot, stack) when to_call = 0, calls when to_call <= 5% of stack,
\* and folds in every other case; any other hand checks (call of 0) when
\* to_call = 0 and folds when facing any bet.
C28_PreflopPolicy ==
    (/\ pc = "betting"
     /\ Len(community_cards) = 0
     /\ Len(players[ActingSeat].hole_cards) = 2
     /\ QLe(ToCall, players[ActingSeat].stack))
    => \E p \in {players[ActingSeat]} :
          ActingDecision =
              IF p.hole_cards[1].rank = p.hole_cards[2].rank THEN
                  IF ToCall = QZero
                  THEN Decision("raise", QMin(QMul(pot, QNorm(3, 4)), p.stack))
                  ELSE IF QLt(QZero, ToCall)
                          /\ QLe(ToCall, QDivInt(p.stack, 10))
                  THEN Decision("call", ToCall)
                  ELSE Decision("fold", QZero)
              ELSE IF HoldsHighCard(p.hole_cards)
                      /\ p.position \in {"CO", "BTN"} THEN
                  IF ToCall = QZero
                  THEN Decision("raise", QMin(QDivInt(pot, 2), p.stack))
                  ELSE IF QLe(ToCall, QDivInt(p.stack, 20))
                  THEN Decision("call", ToCall)
                  ELSE Decision("fold", QZero)
              ELSE IF HoldsHighCard(p.hole_cards) THEN Decision("fold", QZero)
              ELSE IF ToCall = QZero
              THEN Decision("call", QZero)
              ELSE Decision("fold", QZero)

\* pre-flop a player with a pocket pair is asked with a negative amount to
\* call, after a raise below that player's bet, and the policy calls
C28_Witness ==
    /\ pc = "betting"
    /\ Len(community_cards) = 0
    /\ \E p \in {players[ActingSeat]} :
          /\ Len(p.hole_cards) = 2
          /\ p.hole_cards[1].rank = p.hole_cards[2].rank
          /\ QLt(ToCall, QZero)
          /\ QLe(ToCall, p.stack)
          /\ ActingDecision = Decision("call", ToCall)

\* what the code does instead: the policy of the claim is followed whenever
\* the amount to call is not negative
C28_PreflopPolicyNonNegative ==
    QLe(QZero, ToCall) => C28_PreflopPolicy

\* C29: a player with a non-negative stack never folds when there is nothing
\* to call: whenever to_call = 0 the decision policy returns a check (call of
\* 0) or a raise, on every street and in every position.
C29_NoFoldWhenFree ==
    (/\ pc = "betting"
     /\ QLe(QZero, players[ActingSeat].stack)
     /\ ToCall = QZero)
    => ActingDecision.action \in {"call", "raise"}

\* pre-flop the big blind, holding a King and facing nothing to call with a
\* positive stack, folds
C29_Witness ==
    /\ pc = "betting"
    /\ Len(community_cards) = 0
    /\ players[ActingSeat].position = "BB"
    /\ HoldsHighCard(players[ActingSeat].hole_cards)
    /\ QLt(QZero, players[ActingSeat].stack)
    /\ ToCall = QZero
    /\ ActingDecision = Decision("fold", QZero)

\* what the code does instead: with nothing to call only an unpaired hand
\* with an Ace, King or Queen folds, pre-flop and out of late position
C29_FoldWhenFreeOnlyHighCard ==
    (/\ pc = "betting"
     /\ QLe(QZero, players[ActingSeat].stack)
     /\ ToCall = QZero
     /\ ActingDecision.action = "fold")
    => \E p \in {players[ActingSeat]} :
          /\ Len(community_cards) = 0
          /\ HoldsHighCard(p.hole_cards)
          /\ p.hole_cards[1].rank # p.hole_cards[2].rank
          /\ p.position \notin {"CO", "BTN"}

\* C30: a player's folded flag is true exactly when that player has folded in
\* the current hand: it is false for every player after the per-hand reset,
\* becomes true when the player's fold is applied, and from then until the
\* next reset folded = not is_active.
C30_FoldedFlag ==
    /\ pc = "blinds" => \A i \in Seats : ~players[i].folded
    /\ \A i \in Seats : players[i].folded = ~players[i].is_active

\* a fold has been applied in a betting round and the flag of the player who
\* folded is still false
C30_Witness ==
    /\ pc \in {"betting", "resolve"}
    /\ last_event = "fold"
    /\ \E i \in Seats : ~players[i].is_active /\ ~players[i].folded

\* what the code does instead: the flag is never set
C30_FoldedNeverSet == \A i \in Seats : ~players[i].folded

-----------------------------------------------------------------------------
(* Properties of the button and the seat labels (checked under TableSpec) *)

\* the labels by offset from the button
SeatLabels == <<"BTN", "SB", "BB", "UTG", "MP", "CO", "MP2", "MP3", "MP4">>

\* C31: on every table of 2..9 players reset_hand, called by play_hand,
\* moves the button to the next seat modulo num_players and labels the seat
\* at offset k from the new button BTN, SB, BB, UTG, MP, CO, MP2, MP3, MP4
\* for k = 0..8; no two seats of the hand carry the same label.
C31_ButtonAndLabels ==
    [][(hands_played' = hands_played + 1) =>
          /\ (pc' = "idle") => (button_pos' = (button_pos + 1) % num_players)
          /\ \A i \in Seats :
                players'[i].position =
                    SeatLabels[((i - button_pos') % num_players) + 1]
          /\ \A i, j \in Seats :
                (i # j) => (players'[i].position # players'[j].position)]_vars

\* a nine-handed table after a hand begun by play_hand, the button having
\* wrapped around the table: the seat before the button is MP4
C31_Witness ==
    /\ num_players = 9
    /\ pc = "idle"
    /\ hands_played = 9
    /\ button_pos = 0
    /\ players[8].position = "MP4"
    /\ players[6].position = "MP2"
    /\ players[1].position = "SB"

\* C32: from one hand of a session to the next, whether play_hand is called
\* directly or by run_simulation, the button moves to the next seat, so
\* that num_players consecutive hands put it once on every seat.
C32_ButtonAdvancesOnePerHand ==
    [][(hands_played >= 1 /\ hands_played' = hands_played + 1) =>
          (button_pos' = (button_pos + 1) % num_players)]_vars

\* heads-up, the second hand of a session driven by run_simulation
C32_Witness ==
    /\ num_players = 2
    /\ hands_played = 2
    /\ pc = "simulated"
    /\ button_pos = 0

\* what holds instead: a hand driven by run_simulation moves the button by
\* two seats, a hand begun by play_hand alone by one
C32_SimulationAdvancesByTwo ==
    [][(hands_played' = hands_played + 1) =>
          (button_pos' = (button_pos + (IF pc' = "simulated" THEN 2 ELSE 1))
                            % num_players)]_vars

\* run_simulation never completes a hand on a table of more than six players
C32_SimulationNeedsSixOrFewer ==
    (pc = "simulated") => (num_players <= 6)

-----------------------------------------------------------------------------
(* Properties of the start of a hand (checked under Spec) *)

\* the pre-flop betting round is about to ask its first decision
PreflopRoundStart ==
    /\ street = 0
    /\ \/ pc = "round"
       \/ pc = "betting" /\ acted = {} /\ last_raiser = -1

\* C33: when the pre-flop betting round starts, the seat after the button
\* has paid exactly the small blind and the seat two after the button
\* (modulo num_players) exactly the big blind since the reset, every other
\* stack is as the reset left it, the pot is the sum of the two blinds, the
\* two players' current_bet are their blinds and the table's bet is the big
\* blind.
C33_BlindsPosted ==
    PreflopRoundStart =>
        LET sb_pos == (button_pos + 1) % num_players
            bb_pos == (button_pos + 2) % num_players
        IN  /\ Debited(sb_pos) = small_blind
            /\ Debited(bb_pos) = big_blind
            /\ \A i \in Seats \ {sb_pos, bb_pos} :
                  players[i].stack = hand_stacks[i]
            /\ pot = QAdd(small_blind, big_blind)
            /\ players[sb_pos].current_bet = small_blind
            /\ players[bb_pos].current_bet = big_blind
            /\ current_bet = big_blind

\* a three-handed table in its second hand, the first decision of the
\* pre-flop round pending: the blinds are on seats 0 and 1, seat 2 has paid
\* nothing, and the stacks are no longer the initial ones
C33_Witness ==
    /\ PreflopRoundStart
    /\ pc = "betting"
    /\ num_players = 3
    /\ hands_played = 1
    /\ button_pos = 2
    /\ players[0].current_bet = small_blind
    /\ players[1].current_bet = big_blind
    /\ players[2].stack = hand_stacks[2]
    /\ hand_stacks[2] # initial_stack

\* heads-up the big blind is paid by the seat of the button
C33_WitnessHeadsUp ==
    /\ PreflopRoundStart
    /\ num_players = 2
    /\ Debited(button_pos) = big_blind
    /\ Debited(1 - button_pos) = small_blind

\* C34: in every hand the player who has paid the small blind carries the
\* label SB and the player who has paid the big blind carries the label BB.
C34_BlindsMatchLabels ==
    (pc = "deal") =>
        \A i \in Seats :
            /\ (Debited(i) = small_blind) => (players[i].position = "SB")
            /\ (Debited(i) = big_blind) => (players[i].position = "BB")

\* heads-up, the blinds just posted: the big blind was paid by the button
C34_Witness ==
    /\ pc = "deal"
    /\ num_players = 2
    /\ Debited(button_pos) = big_blind
    /\ players[button_pos].position = "BTN"
    /\ \A i \in Seats : players[i].position # "BB"

\* what holds instead: the small blind is always paid by the seat labelled
\* SB, and on a table of three or more the big blind by the seat labelled BB
C34_BlindsMatchLabelsThreeUp ==
    (pc = "deal") =>
        \A i \in Seats :
            /\ (Debited(i) = small_blind) => (players[i].position = "SB")
            /\ (Debited(i) = big_blind) =>
                  (players[i].position = (IF num_players = 2 THEN "BTN" ELSE "BB"))

-----------------------------------------------------------------------------
(* Properties of the order of play (checked under Spec) *)

\* the first active seat met going clockwise from seat from
ClockwiseFirstActive(from) ==
    LET k == CHOOSE k \in 0..(num_players - 1) :
                 /\ players[(from + k) % num_players].is_active
                 /\ \A j \in 0..(k - 1) :
                       ~players[(from + j) % num_players].is_active
    IN  (from + k) % num_players

\* the seat that was asked in a pass of the betting loop, read from the
\* loop's position after the pass: the round goes on at the next seat, or
\* has ended at the seat that acted
AskedSeat ==
    IF pc' = "betting" THEN (current_pos' + num_players - 1) % num_players
    ELSE current_pos'

\* C35: in every betting round the first decision is asked of the first
\* active seat met going clockwise from seat button+3 (modulo num_players),
\* the seat after the big blind, and every later decision of the first
\* active seat met going clockwise from the loop's position; the inactive
\* seats passed over are asked nothing: only the seat asked is recorded as
\* having acted, no other player changes, and the event of the pass names
\* the seat asked.
C35_FirstToAct ==
    [][(pc = "betting") =>
          LET from == IF acted = {} /\ last_raiser = -1
                      THEN (button_pos + 3) % num_players
                      ELSE current_pos
              first == ClockwiseFirstActive(from)
          IN  /\ AskedSeat = first
              /\ acted' \ acted \subseteq {first}
              /\ first \in acted'
              /\ \A i \in Seats \ {first} : players'[i] = players[i]
              /\ (event_callback /\ Len(events) < MaxEvents) =>
                    (Last(events').player = first)]_vars

\* three-handed with the button on seat 1: seat 1 has folded, seat 0 has
\* acted, and the next decision, a raise, was asked of seat 2, seat 1
\* being passed over
C35_Witness ==
    /\ pc = "betting"
    /\ num_players = 3
    /\ button_pos = 1
    /\ ~players[1].is_active
    /\ current_pos = 0
    /\ acted = {2}
    /\ event_callback
    /\ Len(events) < MaxEvents
    /\ events[Len(events) - 1].player = 0
    /\ Last(events).player = 2
    /\ Last(events).type = "raise"

\* the first decision of a round after the flop: a raise by the seat at
\* button+3 itself, which is active at the start of every round played
C35_WitnessFirstTurn ==
    /\ street >= 1
    /\ last_raiser = (button_pos + 3) % num_players
    /\ acted = {(button_pos + 3) % num_players}
    /\ event_callback
    /\ Len(events) < MaxEvents
    /\ Last(events).player = (button_pos + 3) % num_players

-----------------------------------------------------------------------------
(* Properties of the per-hand reset (checked under Spec) *)

\* the stack_reset events in a log that name seat i
StackResets(log, i) ==
    {k \in 1..Len(log) : log[k].type = "stack_reset" /\ log[k].player = i}

\* C36: reset_hand empties every player's hole cards, clears every
\* current_bet and marks every player active and not folded; a positive
\* stack is left as it was, a stack of zero or less is replaced by the
\* initial stack, and the events of the reset, delivered when a callback is
\* registered, hold one stack_reset event for each player whose stack was
\* replaced and none for any other player.
C36_ResetHand ==
    [][(pc = "idle" /\ pc' = "blinds") =>
          \A i \in Seats :
             /\ players'[i].hole_cards = <<>>
             /\ players'[i].current_bet = QZero
             /\ players'[i].is_active
             /\ ~players'[i].folded
             /\ players'[i].stack =
                   (IF QLt(QZero, players[i].stack) THEN players[i].stack
                    ELSE initial_stack)
             /\ Cardinality(StackResets(events', i)) =
                   (IF event_callback /\ ~QLt(QZero, players[i].stack)
                    THEN 1 ELSE 0)
             /\ \A k \in StackResets(events', i) :
                   events'[k].amount = initial_stack]_vars

\* the second hand of a three-handed session has just been reset with a
\* callback registered: one player went bust in the first hand and has the
\* initial stack again, with the only stack_reset event; another player
\* keeps a stack above the initial one
C36_Witness ==
    /\ pc = "blinds"
    /\ hands_played = 1
    /\ num_players = 3
    /\ event_callback
    /\ Len(events) = 1
    /\ events[1].type = "stack_reset"
    /\ players[events[1].player].stack = initial_stack
    /\ \E j \in Seats : QLt(initial_stack, players[j].stack)
    /\ \A i \in Seats : players[i].hole_cards = <<>>

-----------------------------------------------------------------------------
(* Properties of the cards of a hand (checked under Spec) *)

\* every hole card of the hand followed by the community cards
HandCards(pl, board) ==
    Tuple([k \in 1..(2 * num_players) |->
              pl[(k - 1) \div 2].hole_cards[((k - 1) % 2) + 1]]) \o board

\* C37: deal_hole_cards shuffles the fresh deck of 52 cards and deals from
\* its top one card to each player in seat order, then a second card to
\* each in the same order, so that every player holds exactly two cards
\* and 52 - 2 * num_players cards remain; these hole cards and the
\* community cards dealt later in the hand are pairwise distinct, and the
\* deck shrinks by exactly the cards dealt.
C37_HoleCardsDealt ==
    [][/\ (pc = "deal") =>
             /\ Len(deck.cards) = 52
             /\ Len(deck'.cards) = 52 - 2 * num_players
             /\ \A i \in Seats : Len(players'[i].hole_cards) = 2
             /\ \E shuffled \in shuffle_choices(deck) :
                   /\ deck'.cards = Take(shuffled.cards, 52 - 2 * num_players)
                   /\ \A i \in Seats :
                         players'[i].hole_cards =
                             <<shuffled.cards[52 - i],
                               shuffled.cards[52 - num_players - i]>>
       /\ (pc' \in InHand \ {"blinds", "deal"}) =>
             /\ \A i \in Seats : Len(players'[i].hole_cards) = 2
             /\ NoDuplicates(HandCards(players', community_cards'))
             /\ Len(deck'.cards) =
                   52 - 2 * num_players - Len(community_cards')
             /\ \A k \in 1..Len(deck'.cards) :
                   \A j \in 1..Len(HandCards(players', community_cards')) :
                      deck'.cards[k] # HandCards(players', community_cards')[j]
      ]_vars

\* three-handed, the hole cards just dealt: seat 0 holds the first and the
\* fourth card from the top of the shuffled deck, seat 2 the third and the
\* sixth, and 46 cards remain
C37_Witness ==
    /\ pc = "round"
    /\ street = 0
    /\ num_players = 3
    /\ Len(deck.cards) = 46
    /\ players[0].hole_cards = <<Card(3, 3), Card(3, 0)>>
    /\ players[1].hole_cards = <<Card(5, 0), Card(0, 1)>>
    /\ players[2].hole_cards = <<Card(11, 3), Card(1, 2)>>

\* the end of a hand with the four-card flop: six community cards and the
\* hole cards, all different, 40 cards remaining
C37_WitnessBoard ==
    /\ pc = "resolve"
    /\ num_players = 3
    /\ Len(community_cards) = 6
    /\ Len(deck.cards) = 40
    /\ NoDuplicates(HandCards(players, community_cards))

-----------------------------------------------------------------------------
(* Properties of the community events (checked under Spec) *)

\* a street is about to be dealt and its event will be delivered and kept
CommunityEventDue ==
    /\ pc \in {"deal_flop", "deal_turn", "deal_river"}
    /\ event_callback
    /\ Len(events) < MaxEvents

\* the cards added to the board by the step
NewlyDealt ==
    SubSeq(community_cards', Len(community_cards) + 1, Len(community_cards'))

\* C38: with the three-card and with the four-card flop alike, the cards of
\* the community event of a street are exactly the cards dealt on that
\* street: the whole flop for the flop event, and for the turn and the
\* river event the one card that deal_turn or deal_river has just drawn.
C38_CommunityEventsShowNewCards ==
    [][CommunityEventDue =>
          /\ Last(events').type = "community"
          /\ Last(events').cards = NewlyDealt]_vars

\* the turn of a hand with the four-card flop has been dealt: the board
\* holds five cards, the turn card being the fifth, and the turn event
\* shows the fourth card, which came with the flop
C38_Witness ==
    /\ four_card_flop
    /\ event_callback
    /\ pc = "round"
    /\ street = 2
    /\ Len(community_cards) = 5
    /\ Len(events) < MaxEvents
    /\ Last(events).type = "community"
    /\ Last(events).cards = <<community_cards[4]>>
    /\ community_cards[4] # community_cards[5]

\* what holds instead: the flop event shows the first three cards of the
\* board, the turn event its fourth and the river event its fifth card,
\* which are the cards dealt on the street only with the three-card flop
C38_CommunityEventsByIndex ==
    [][CommunityEventDue =>
          /\ Last(events').type = "community"
          /\ Last(events').cards =
                (CASE pc = "deal_flop" -> Take(community_cards', 3)
                   [] pc = "deal_turn" -> <<community_cards'[4]>>
                   [] pc = "deal_river" -> <<community_cards'[5]>>)
          /\ (~four_card_flop) => (Last(events').cards = NewlyDealt)
          /\ Len(NewlyDealt) =
                (IF pc = "deal_flop" /\ four_card_flop THEN 4
                 ELSE IF pc = "deal_flop" THEN 3 ELSE 1)]_vars

=============================================================================
